---- MODULE Spec2Model ----
(***************************************************************************)
(* A model of the shashlik tile generator: the road graph and its A*       *)
(* route query (osm/src/routing), the TileWriter clip pool and its flush   *)
(* (osm/src/tile_writer), and the WayStore merge and per-zoom emission     *)
(* (osm_tool/src/way_store.rs).  Each subsystem has its own specification  *)
(* over its own group of variables; the other groups stay at rest.         *)
(***************************************************************************)
EXTENDS Integers, Sequences, FiniteSets, TLC

VARIABLES
    \* OsmRoadGraph
    node_graph,      \* DiGraphMap<i64, f32>: (a, b) -> twice the edge weight
    node_map,        \* HashMap<i64, Coord>
    route_result,    \* the outcome of the latest route(from_id, to_id) call
    \* WayStore::merge_ways
    merged_map,      \* FxHashMap<PathNodeKey, PathNode>
    excluded_vec,    \* the ways of an excluded line kind, unmerged
    ways_read,       \* how many ways have been turned into items so far
    \* WayStore::process_with(out)_preserve_topology
    data,            \* Vec<(MapGeomObject, LineString)>: the merged ways
    preserve_topology,
    zoom_level,      \* the zoom level the loop is about to process
    way_index,       \* without topology: the way the outer loop is at
    temp_line,       \* without topology: the line as simplified so far
    seen,            \* with topology: the ids of the ways filtered out
    start_end_map,   \* with topology: CoordInt -> ways ending there
    nodes_counter,   \* with topology: CoordInt -> ways passing there
    sent,            \* what the latest step sent into the channel
    emitted_at,      \* history: the (way id, zoom) pairs something was sent for
    \* TileWriter
    tw_pc,           \* where the main thread is in the TileWriter's methods
    sender,          \* Option<Sender>: TRUE for Some
    channel,         \* the records sent and not yet received
    job_queue,       \* the closures handed to the pool and not yet started
    running,         \* the closures the pool's workers are executing
    pool_threads,    \* the size of thread_pool
    tile_db_map,     \* FxHashMap<TileKey, MapGeometryCollection>
    tile_keys_cache, \* Arc<FxHashSet<TileKey>>
    flush_arg,       \* what the flush in progress was called for
    flushes,         \* how often flush_to_collections was entered
    submitted,       \* history: every job add_to_tiles has handed to the pool
    captured,        \* history: the key sets taken from tile_db_map
    accumulated,     \* history: tile_db_map as save_to_file found it
    persisted,       \* the rows of the tiles table
    \* TagFilter
    string_table,    \* the blob's string table, indexed from 0
    filter_tags,     \* the (key, Option<value>) strings TagFilter::new was given
    tag_filter,      \* TagFilter.filter: Vec<(u32, Option<u32>)>
    filter_result,   \* the outcome of the latest filter(string_table, tags) call
    \* TagIterator
    packed_tags,     \* the packed stream the iterator was made over
    packed_iter,     \* TagIterator.iter: what is left of the stream
    iter_tags,       \* TagIterator.tags: the map being filled
    yielded,         \* the maps next() has returned so far
    iter_done,       \* next() has returned None
    \* sutherland_hodgman_clip
    subject_polygon, \* the ring handed to the clip
    clip_rect,       \* the rectangle it is clipped against
    clip_result,     \* the outcome of the clip
    \* one clip job of the TileWriter on its own
    fill_job,        \* the closure add_to_tiles hands to the pool
    fill_records,    \* what the closure has sent
    \* the orders of WayInfo
    way_a,           \* the left operand
    way_b,           \* the right operand
    compared,        \* what a.cmp(&b), a.partial_cmp(&b) and a == b returned
    \* OsmReader
    blob_file,        \* the blobs of the PBF file
    reader_pc,        \* where the main thread is
    reader_pos,       \* the blob the input is positioned at
    blocks_sizes,     \* the length of blocks_sizes
    last_block_index, \* the block the pre-scan parses next, from 1
    ways_ids,         \* the blobs whose relations the pre-scan has recorded
    decode_jobs,      \* the jobs of the pool not yet run
    blob_chan,        \* the channel of data()
    blob_buckets,    \* node_blobs, way_blobs, rels_blobs
    \* the batch pipeline
    pipe_file,        \* the blobs of the file: ways or relations
    pipe_pc,          \* where the main thread is
    pipe_pos,         \* the blob data() reads next
    pipe_decode_jobs, \* closures of data() not yet finished
    pipe_blob_chan,   \* the channel of data()
    way_blobs,        \* way_blobs
    rels_blobs,       \* rels_blobs
    item_jobs,        \* closures of process_pbf not yet finished
    item_chan,        \* the channel process_pbf drains
    store_threads,    \* producer threads not yet finished
    store_chan,       \* the channel process_ways_and_forest drains
    clip_jobs,        \* closures of add_to_tiles not yet finished
    clip_chan,        \* the channel of the TileWriter
    stored,           \* what flush_to_collections has put in tile_db_map
    panicked,        \* the workers that panicked
    \* the dense nodes of a blob
    dense,            \* the DenseNodes message: id, lat, lon, keys_vals
    dense_nodes,     \* the nodes decoded from it
    \* process_pbf: the phases and the two tables
    ph_input,         \* what data() and extract_ways_id_from_relations returned
    ph_pc,            \* where the main thread is in process_pbf
    ph_todo,          \* the blobs the current loop has still to take
    nodes_table,      \* nodes: FxHashMap<i64, Coord>, its keys
    ways_table,       \* ways: FxHashMap<i64, Vec<i64>>
    ph_jobs,          \* jobs queued in the pool
    ph_running,       \* jobs a worker has taken
    ph_chan,          \* the channel of the current phase
    ph_started,      \* per job start: the tables and the way output outstanding then
    \* extract_ways_id_from_relations
    sc_file,          \* the blobs of the file
    sc_pc,            \* where extract_ways_id_from_relations is
    sc_pos,           \* the position of the input, in bytes
    sc_blocks_sizes,  \* blocks_sizes
    sc_total_size,    \* total_size
    sc_last_block_index, \* last_block_index
    sc_ways_ids,      \* ways_ids
    sc_seeks,         \* the offsets the second loop has sought to
    sc_parsed,       \* the blobs the second loop has parsed
    \* read_relations: the ring assembly
    all_outer_ways,   \* all_outer_ways: the refs of the outer members
    outer_index,      \* the way the loop is at
    hm,              \* hm: the chains by the last node id
    \* merge_polygons
    mp_input,         \* the number of polygons merge_polygons is called with
    mp_pc,            \* where merge_polygons is
    mp_polygons,      \* polygons
    mp_step,          \* step
    mp_half_step,     \* half_step
    mp_i,             \* i
    mp_rounds        \* the turns of the outer loop begun

varsRoute == <<node_graph, node_map, route_result>>

varsMerge == <<merged_map, excluded_vec, ways_read>>

varsZoom == <<data, preserve_topology, zoom_level, way_index, temp_line, seen,
              start_end_map, nodes_counter, sent, emitted_at>>

varsTW == <<tw_pc, sender, channel, job_queue, running, pool_threads, tile_db_map,
            tile_keys_cache, flush_arg, flushes, submitted, captured, accumulated,
            persisted>>

varsFilter == <<string_table, filter_tags, tag_filter, filter_result>>

varsTags == <<packed_tags, packed_iter, iter_tags, yielded, iter_done>>

varsClip == <<subject_polygon, clip_rect, clip_result>>

varsFill == <<fill_job, fill_records>>

varsOrder == <<way_a, way_b, compared>>

varsReader == <<blob_file, reader_pc, reader_pos, blocks_sizes, last_block_index, ways_ids, decode_jobs, blob_chan, blob_buckets>>

varsPipe == <<pipe_file, pipe_pc, pipe_pos, pipe_decode_jobs, pipe_blob_chan, way_blobs, rels_blobs, item_jobs, item_chan, store_threads, store_chan, clip_jobs, clip_chan, stored, panicked>>

varsDense == <<dense, dense_nodes>>

varsPhases == <<ph_input, ph_pc, ph_todo, nodes_table, ways_table, ph_jobs, ph_running, ph_chan, ph_started>>

varsScan == <<sc_file, sc_pc, sc_pos, sc_blocks_sizes, sc_total_size, sc_last_block_index, sc_ways_ids, sc_seeks, sc_parsed>>

varsRings == <<all_outer_ways, outer_index, hm>>

varsUnion == <<mp_input, mp_pc, mp_polygons, mp_step, mp_half_step, mp_i, mp_rounds>>

varsRest == <<varsFilter, varsTags, varsClip, varsFill, varsOrder, varsReader, varsPipe, varsDense, varsPhases, varsScan, varsRings, varsUnion>>

\* Every group but one.
varsButFilter == <<varsTags, varsClip, varsFill, varsOrder, varsReader, varsPipe, varsDense, varsPhases, varsScan, varsRings, varsUnion>>
varsButTags == <<varsFilter, varsClip, varsFill, varsOrder, varsReader, varsPipe, varsDense, varsPhases, varsScan, varsRings, varsUnion>>
varsButClip == <<varsFilter, varsTags, varsFill, varsOrder, varsReader, varsPipe, varsDense, varsPhases, varsScan, varsRings, varsUnion>>
varsButFill == <<varsFilter, varsTags, varsClip, varsOrder, varsReader, varsPipe, varsDense, varsPhases, varsScan, varsRings, varsUnion>>
varsButOrder == <<varsFilter, varsTags, varsClip, varsFill, varsReader, varsPipe, varsDense, varsPhases, varsScan, varsRings, varsUnion>>
varsButReader == <<varsFilter, varsTags, varsClip, varsFill, varsOrder, varsPipe, varsDense, varsPhases, varsScan, varsRings, varsUnion>>
varsButPipe == <<varsFilter, varsTags, varsClip, varsFill, varsOrder, varsReader, varsDense, varsPhases, varsScan, varsRings, varsUnion>>
varsButDense == <<varsFilter, varsTags, varsClip, varsFill, varsOrder, varsReader, varsPipe, varsPhases, varsScan, varsRings, varsUnion>>
varsButPhases == <<varsFilter, varsTags, varsClip, varsFill, varsOrder, varsReader, varsPipe, varsDense, varsScan, varsRings, varsUnion>>
varsButScan == <<varsFilter, varsTags, varsClip, varsFill, varsOrder, varsReader, varsPipe, varsDense, varsPhases, varsRings, varsUnion>>
varsButRings == <<varsFilter, varsTags, varsClip, varsFill, varsOrder, varsReader, varsPipe, varsDense, varsPhases, varsScan, varsUnion>>
varsButUnion == <<varsFilter, varsTags, varsClip, varsFill, varsOrder, varsReader, varsPipe, varsDense, varsPhases, varsScan, varsRings>>

vars == <<varsRoute, varsMerge, varsZoom, varsTW, varsRest>>

(***************************************************************************)
(* Shared helpers.                                                         *)
(***************************************************************************)
Min2(a, b) == IF a <= b THEN a ELSE b

Max2(a, b) == IF a >= b THEN a ELSE b

SetMin(S) == CHOOSE x \in S : \A y \in S : x <= y

Reverse(s) == [i \in 1..Len(s) |-> s[Len(s) + 1 - i]]

Range(s) == {s[i] : i \in 1..Len(s)}

\* Euclidean distance of two grid coordinates; the coordinates of the model
\* are chosen so that every distance taken is an integer.
EuclideanDistance(p, q) ==
    LET d2 == (p[1] - q[1]) * (p[1] - q[1]) + (p[2] - q[2]) * (p[2] - q[2])
    IN  CHOOSE d \in 0..d2 : d * d = d2

(***************************************************************************)
(* OsmRoadGraph (osm/src/routing/mod.rs).                                  *)
(*                                                                         *)
(* Node ids 1..4 sit on the corners of a 3 x 4 rectangle, so that every    *)
(* distance is 3, 4 or 5 and every weight is exact in f32.  All scores are *)
(* kept doubled (weight 0.5 * d is stored as d, 1.0 * d as 2 * d, the      *)
(* heuristic d as 2 * d), which keeps them integers and leaves every       *)
(* comparison of the search unchanged.                                     *)
(***************************************************************************)
RoadNodes == {1, 2, 3, 4}

RoadCoord(n) ==
    CASE n = 1 -> <<0, 0>>
      [] n = 2 -> <<3, 0>>
      [] n = 3 -> <<3, 4>>
      [] n = 4 -> <<0, 4>>

HighwayKinds ==
    {"Motorway", "Trunk", "Primary", "Secondary", "Tertiary", "Unclassified",
     "Residential", "MotorwayLink", "TrunkLink", "PrimaryLink",
     "SecondaryLink", "TertiaryLink", "Service", "Footway"}

\* The number of directed edges the model lets the graph hold.
MaxEdges == 3

\* Twice highway_weight(kind): 0.5 for the large highways, 1.0 otherwise.
highway_weight(kind) ==
    IF kind \in {"Motorway", "MotorwayLink", "Primary", "PrimaryLink"}
    THEN 1 ELSE 2

EdgeWeight(a, b, kind) ==
    EuclideanDistance(RoadCoord(a), RoadCoord(b)) * highway_weight(kind)

\* DiGraphMap::add_edge: insert the edge or replace its weight.
GraphAddEdge(g, a, b, w) ==
    [p \in DOMAIN g \cup {<<a, b>>} |-> IF p = <<a, b>> THEN w ELSE g[p]]

\* HashMap::entry(id).or_insert(coord)
MapOrInsert(m, id, c) ==
    IF id \in DOMAIN m THEN m
    ELSE [k \in DOMAIN m \cup {id} |-> IF k = id THEN c ELSE m[k]]

\* graph.edges(node): the outgoing edges of a node, by target.
EdgesFrom(g, node) == {p[2] : p \in {q \in DOMAIN g : q[1] = node}}

\* The heuristic of route: the (doubled) Euclidean distance to the destination.
EstimateCost(nm, n, to) == 2 * EuclideanDistance(nm[n], nm[to])

\* A path tracker that forgets to reverse the path it walked back.
RECURSIVE ReconstructPathUnreversed(_, _)
ReconstructPathUnreversed(pred, n) ==
    IF n \in DOMAIN pred THEN <<n>> \o ReconstructPathUnreversed(pred, pred[n])
    ELSE <<n>>

\* PathTracker::reconstruct_path_to
RECURSIVE ReconstructPath(_, _)
ReconstructPath(pred, n) ==
    IF n \in DOMAIN pred THEN Append(ReconstructPath(pred, pred[n]), n)
    ELSE <<n>>

\* petgraph::algo::astar from the first pop on.  heap is the BinaryHeap of
\* MinScored(f, node) entries, scores the tentative g-scores, est the
\* estimate_scores of the nodes already expanded, pred the path tracker.
\* MinScored compares the score alone, so the heap may pop any entry of
\* minimal score: the result is the set of the outcomes over every such
\* choice.  An outcome is <<"none">> or <<"some", node path>>.
RECURSIVE AstarLoop(_, _, _, _, _, _, _)
AstarLoop(g, nm, to, heap, scores, est, pred) ==
    IF heap = {} THEN {<<"none">>}
    ELSE
      LET fmin == SetMin({e[1] : e \in heap})
          Step(e) ==
            LET f == e[1]
                node == e[2]
                rest == heap \ {e}
            IN  IF node = to THEN {<<"some", ReconstructPath(pred, node)>>}
                ELSE IF node \in DOMAIN est /\ est[node] <= f
                THEN AstarLoop(g, nm, to, rest, scores, est, pred)
                ELSE
                  LET est2 == [k \in DOMAIN est \cup {node} |->
                                  IF k = node THEN f ELSE est[k]]
                      better == {t \in EdgesFrom(g, node) :
                                    ~(t \in DOMAIN scores
                                      /\ scores[t] <= scores[node] + g[<<node, t>>])}
                      scores2 == [k \in DOMAIN scores \cup better |->
                                    IF k \in better
                                    THEN scores[node] + g[<<node, k>>]
                                    ELSE scores[k]]
                      pred2 == [k \in DOMAIN pred \cup better |->
                                    IF k \in better THEN node ELSE pred[k]]
                      pushed == {<<scores2[t] + EstimateCost(nm, t, to), t>> :
                                    t \in better}
                  IN  AstarLoop(g, nm, to, rest \cup pushed, scores2, est2, pred2)
      IN  UNION {Step(e) : e \in {x \in heap : x[1] = fmin}}

\* OsmRoadGraph::route.  The destination is looked up first (`?` gives None);
\* astar then scores the start node with the heuristic, whose
\* expect("missing node") panics when the start has no coordinate.
RouteOutcomes(g, nm, from, to) ==
    IF to \notin DOMAIN nm THEN {<<"none">>}
    ELSE IF from \notin DOMAIN nm THEN {<<"panic">>}
    ELSE AstarLoop(g, nm, to, {<<EstimateCost(nm, from, to), from>>},
                   [k \in {from} |-> 0], <<>>, <<>>)

NoCall == [kind |-> "init"]

RestRoute ==
    /\ node_graph = <<>>
    /\ node_map = <<>>
    /\ route_result = NoCall

\* add_edge(a_node, b_node, road_kind); the coordinates handed in are those of
\* the node table (osm_tool/src/main.rs), one per node id.
add_edge(a, b, kind) ==
    /\ Cardinality(DOMAIN node_graph \cup {<<a, b>>}) <= MaxEdges
    /\ node_graph' = GraphAddEdge(node_graph, a, b, EdgeWeight(a, b, kind))
    /\ node_map' = MapOrInsert(MapOrInsert(node_map, a, RoadCoord(a)), b, RoadCoord(b))
    /\ route_result' = NoCall

add_bi_edge(a, b, kind) ==
    /\ Cardinality(DOMAIN node_graph \cup {<<a, b>>, <<b, a>>}) <= MaxEdges
    /\ node_graph' = GraphAddEdge(GraphAddEdge(node_graph, a, b, EdgeWeight(a, b, kind)),
                                  b, a, EdgeWeight(a, b, kind))
    /\ node_map' = MapOrInsert(MapOrInsert(node_map, a, RoadCoord(a)), b, RoadCoord(b))
    /\ route_result' = NoCall

route(from, to) ==
    /\ \E o \in RouteOutcomes(node_graph, node_map, from, to) :
          route_result' =
             IF o[1] = "some"
             THEN [kind |-> "some", from |-> from, to |-> to, path |-> o[2],
                   coords |-> [i \in 1..Len(o[2]) |-> node_map[o[2][i]]]]
             ELSE [kind |-> o[1], from |-> from, to |-> to]
    /\ UNCHANGED <<node_graph, node_map>>

NextRoute ==
    \/ \E a \in RoadNodes : \E b \in RoadNodes \ {a} : \E kind \in HighwayKinds :
          add_edge(a, b, kind)
    \/ \E a \in RoadNodes : \E b \in RoadNodes \ {a} : \E kind \in HighwayKinds :
          add_bi_edge(a, b, kind)
    \/ \E from \in RoadNodes, to \in RoadNodes : route(from, to)

(***************************************************************************)
(* WayStore::merge_ways (osm_tool/src/way_store.rs), fed by read_ways      *)
(* (osm_tool/src/pbf_processor.rs) through OsmWay::as_line.                *)
(*                                                                         *)
(* The node table holds nodes 1..3, each at its own coordinate; node 4 is  *)
(* referenced by ways but lies outside the boundary and is not in the      *)
(* table.                                                                  *)
(***************************************************************************)
TableNodes == {1, 2, 3}

\* nodes.get(id): the coordinate of a node of the table.
NodeCoord(n) == <<10 * n, n>>

\* The refs of the ways read: two-node ways in both directions, a way that
\* leaves the boundary and comes back, and a closed way.
WayRefs == {<<1, 2>>, <<2, 1>>, <<2, 3>>, <<3, 2>>, <<3, 4, 1>>, <<2, 3, 2>>}

\* WayInfo values: a base class, the same class under another name, classes
\* that differ from another in line_kind alone, in layer_kind alone and in
\* layer alone (read_ways keeps a layer only beside a bridge or tunnel), and
\* the excluded footway.
WayInfos ==
    {[line_kind |-> "Primary", layer |-> 0, layer_kind |-> "None", name_en |-> "none"],
     [line_kind |-> "Primary", layer |-> 0, layer_kind |-> "None", name_en |-> "Main"],
     [line_kind |-> "Secondary", layer |-> 0, layer_kind |-> "None", name_en |-> "none"],
     [line_kind |-> "Primary", layer |-> 0, layer_kind |-> "Bridge", name_en |-> "none"],
     [line_kind |-> "Primary", layer |-> 1, layer_kind |-> "Bridge", name_en |-> "none"],
     [line_kind |-> "Footway", layer |-> 0, layer_kind |-> "None", name_en |-> "none"]}

\* merge_ways is called with exclude = [Highway(Footway)].
ExcludedKinds == {"Footway"}

\* The number of ways turned into items.
MaxItems == 3

\* OsmWay::as_line: the coordinates of the refs found in the node table, with
\* the first and the last ref found (-1 when none is).
RECURSIVE FoundRefs(_)
FoundRefs(refs) ==
    IF refs = <<>> THEN <<>>
    ELSE IF Head(refs) \in TableNodes THEN <<Head(refs)>> \o FoundRefs(Tail(refs))
    ELSE FoundRefs(Tail(refs))

as_line(refs) ==
    LET found == FoundRefs(refs)
    IN  [line |-> [i \in 1..Len(found) |-> NodeCoord(found[i])],
         f_node |-> IF found = <<>> THEN -1 ELSE found[1],
         l_node |-> IF found = <<>> THEN -1 ELSE found[Len(found)]]

\* A key that leaves the layer out of the comparison.
PathNodeKeyNoLayer(id, info) == <<id, info.line_kind, info.layer_kind>>

\* PathNodeKey { id, info } as a map key: WayInfo's derived PartialEq and Hash
\* ignore name_en and compare line_kind, layer and layer_kind.
PathNodeKey(id, info) == <<id, info.line_kind, info.layer, info.layer_kind>>

MapRemove(m, k) == [x \in DOMAIN m \ {k} |-> m[x]]

MapInsert(m, k, v) == [x \in DOMAIN m \cup {k} |-> IF x = k THEN v ELSE m[x]]

\* The ways a line is made of, in the line's direction; turned round with it.
ReverseParts(parts) ==
    [i \in 1..Len(parts) |->
        [way_id |-> parts[Len(parts) + 1 - i].way_id,
         info |-> parts[Len(parts) + 1 - i].info,
         from |-> parts[Len(parts) + 1 - i].to,
         to |-> parts[Len(parts) + 1 - i].from]]

\* A prepend that forgets to turn the removed line round.
SplicePrependUnreversed(node, path) == node.line \o path

\* way_store.rs 343-345: the removed node's line, reversed, then the path.
SplicePrepend(node, path) == Reverse(node.line) \o path

\* way_store.rs 360-362: the path, then the removed node's line.
SpliceAppend(node, path) == path \o node.line

\* A far end that is the near end.
FarEndSame(node, id) == id

\* The far endpoint of a removed node, seen from the key it was found under.
FarEnd(node, id) == IF node.f_id = id THEN node.l_id ELSE node.f_id

\* The loop of merge_ways (way_store.rs 328-366) for one item: st holds the
\* map, the ids of key1 and key2, the path, and the ways the path is made of.
RECURSIVE MergeLoop(_, _)
MergeLoop(st, info) ==
    LET k1 == PathNodeKey(st.key1, info)
        k2 == PathNodeKey(st.key2, info)
    IN  IF k1 \in DOMAIN st.map THEN
          LET node == st.map[k1]
              far == FarEnd(node, st.key1)
          IN  MergeLoop([map |-> MapRemove(MapRemove(st.map, k1), PathNodeKey(far, info)),
                         key1 |-> far,
                         key2 |-> st.key2,
                         path |-> SplicePrepend(node, st.path),
                         parts |-> ReverseParts(node.parts) \o st.parts,
                         prepends |-> st.prepends + 1,
                         appends |-> st.appends], info)
        ELSE IF k2 \in DOMAIN st.map THEN
          LET node == st.map[k2]
              far == FarEnd(node, st.key2)
          IN  MergeLoop([map |-> MapRemove(MapRemove(st.map, k2), PathNodeKey(far, info)),
                         key1 |-> st.key1,
                         key2 |-> far,
                         path |-> SpliceAppend(node, st.path),
                         parts |-> st.parts \o node.parts,
                         prepends |-> st.prepends,
                         appends |-> st.appends + 1], info)
        ELSE st

\* map::ZOOM_LEVELS
ZOOM_LEVELS == 18

\* The emitters of process_ways at rest: no merged ways, the loops over.
RestZoom ==
    /\ data = <<>>
    /\ preserve_topology = FALSE
    /\ zoom_level = ZOOM_LEVELS
    /\ way_index = 1
    /\ temp_line = <<>>
    /\ seen = {}
    /\ start_end_map = <<>>
    /\ nodes_counter = <<>>
    /\ sent = <<>>
    /\ emitted_at = {}

\* No TileWriter constructed.
RestTW ==
    /\ tw_pc = "none"
    /\ sender = FALSE
    /\ channel = <<>>
    /\ job_queue = <<>>
    /\ running = {}
    /\ pool_threads = 0
    /\ tile_db_map = <<>>
    /\ tile_keys_cache = {}
    /\ flush_arg = "none"
    /\ flushes = 0
    /\ submitted = <<>>
    /\ captured = {}
    /\ accumulated = <<>>
    /\ persisted = <<>>

\* No TagFilter built.
RestFilter ==
    /\ string_table = <<>>
    /\ filter_tags = <<>>
    /\ tag_filter = <<>>
    /\ filter_result = <<"idle">>

\* No TagIterator made.
RestTags ==
    /\ packed_tags = <<>>
    /\ packed_iter = <<>>
    /\ iter_tags = <<>>
    /\ yielded = <<>>
    /\ iter_done = TRUE

\* No clip called.
RestClip ==
    /\ subject_polygon = <<>>
    /\ clip_rect = <<>>
    /\ clip_result = <<"idle">>

\* No clip job on its own.
RestFill ==
    /\ fill_job = <<>>
    /\ fill_records = <<"idle">>

\* No comparison made.
RestOrder ==
    /\ way_a = <<>>
    /\ way_b = <<>>
    /\ compared = <<>>

\* No file opened.
RestReader ==
    /\ blob_file = <<>>
    /\ reader_pc = "idle"
    /\ reader_pos = 0
    /\ blocks_sizes = 0
    /\ last_block_index = 0
    /\ ways_ids = {}
    /\ decode_jobs = {}
    /\ blob_chan = <<>>
    /\ blob_buckets = <<>>

\* No run started.
RestPipe ==
    /\ pipe_file = <<>>
    /\ pipe_pc = "idle"
    /\ pipe_pos = 0
    /\ pipe_decode_jobs = {}
    /\ pipe_blob_chan = <<>>
    /\ way_blobs = <<>>
    /\ rels_blobs = <<>>
    /\ item_jobs = {}
    /\ item_chan = <<>>
    /\ store_threads = {}
    /\ store_chan = <<>>
    /\ clip_jobs = {}
    /\ clip_chan = <<>>
    /\ stored = {}
    /\ panicked = {}

\* No dense nodes decoded.
RestDense ==
    /\ dense = <<>>
    /\ dense_nodes = <<"idle">>

RestPhases ==
    /\ ph_input = <<>>
    /\ ph_pc = "off"
    /\ ph_todo = <<>>
    /\ nodes_table = {}
    /\ ways_table = <<>>
    /\ ph_jobs = {}
    /\ ph_running = {}
    /\ ph_chan = <<>>
    /\ ph_started = {}

RestScan ==
    /\ sc_file = <<>>
    /\ sc_pc = "off"
    /\ sc_pos = 0
    /\ sc_blocks_sizes = <<>>
    /\ sc_total_size = 0
    /\ sc_last_block_index = -1
    /\ sc_ways_ids = {}
    /\ sc_seeks = <<>>
    /\ sc_parsed = <<>>

RestRings ==
    /\ all_outer_ways = <<>>
    /\ outer_index = 0
    /\ hm = <<>>

RestUnion ==
    /\ mp_input = 0
    /\ mp_pc = "off"
    /\ mp_polygons = <<>>
    /\ mp_step = 0
    /\ mp_half_step = 0
    /\ mp_i = 0
    /\ mp_rounds = 0

RestOthers == RestFilter /\ RestTags /\ RestClip /\ RestFill /\ RestOrder /\ RestReader /\ RestPipe /\ RestDense /\ RestPhases /\ RestScan /\ RestRings /\ RestUnion

RestMerge ==
    /\ merged_map = <<>>
    /\ excluded_vec = <<>>
    /\ ways_read = 0

\* One way from read_ways to the end of its turn of merge_ways' for loop.
\* read_ways drops a way none of whose refs is in the node table (its path is
\* empty), so no such item reaches the store.
MergeItem(refs, info) ==
    LET al == as_line(refs)
        way_id == ways_read + 1
        obj == [id |-> way_id, kind |-> info]
    IN  /\ ways_read < MaxItems
        /\ al.line # <<>>
        /\ ways_read' = way_id
        /\ IF info.line_kind \in ExcludedKinds THEN
             /\ excluded_vec' = Append(excluded_vec, [obj |-> obj, line |-> al.line])
             /\ UNCHANGED merged_map
           ELSE
             LET st == MergeLoop([map |-> merged_map, key1 |-> al.f_node,
                                  key2 |-> al.l_node, path |-> al.line,
                                  parts |-> <<[way_id |-> way_id, info |-> info,
                                               from |-> al.f_node, to |-> al.l_node]>>,
                                  prepends |-> 0, appends |-> 0], info)
                 m2 == MapInsert(st.map, PathNodeKey(st.key2, info),
                                 [f_id |-> st.key2, l_id |-> st.key1, obj |-> obj,
                                  line |-> Reverse(st.path),
                                  parts |-> ReverseParts(st.parts),
                                  prepends |-> st.prepends, appends |-> st.appends])
             IN  /\ merged_map' =
                       MapInsert(m2, PathNodeKey(st.key1, info),
                                 [f_id |-> st.key1, l_id |-> st.key2, obj |-> obj,
                                  line |-> st.path, parts |-> st.parts,
                                  prepends |-> st.prepends, appends |-> st.appends])
                 /\ UNCHANGED excluded_vec

\* The way ids the entries of the map are stored under.
MergedIds == {merged_map[k].obj.id : k \in DOMAIN merged_map}

\* into_values() lists the entries in the order of the hash map, which is any
\* order: for each way id, first[id] is the key of the entry listed first.
RECURSIVE FirstChoicesOf(_)
FirstChoicesOf(ids) ==
    IF ids = {} THEN {<<>>}
    ELSE LET id == CHOOSE x \in ids : TRUE
         IN  {MapInsert(first, id, k) :
                 first \in FirstChoicesOf(ids \ {id}),
                 k \in {x \in DOMAIN merged_map : merged_map[x].obj.id = id}}

FirstChoices == FirstChoicesOf(MergedIds)

\* A drain that keeps every entry of the map.
unique_by_none(first) == {merged_map[k] : k \in DOMAIN merged_map}

\* unique_by(|data| data.0.id): of the entries of one way id the first is kept.
unique_by(first) == {merged_map[first[id]] : id \in MergedIds}

\* What merge_ways returns after the items read so far (way_store.rs 390-393):
\* the excluded ways, then the entries kept.
merge_ways_return(first) ==
    [excluded |-> excluded_vec, merged |-> unique_by(first)]

NextMerge == \E refs \in WayRefs, info \in WayInfos : MergeItem(refs, info)

\* Every part but one at rest.
RestButFilter == RestRoute /\ RestMerge /\ RestZoom /\ RestTW /\ RestTags /\ RestClip /\ RestFill /\ RestOrder /\ RestReader /\ RestPipe /\ RestDense /\ RestPhases /\ RestScan /\ RestRings /\ RestUnion
RestButTags == RestRoute /\ RestMerge /\ RestZoom /\ RestTW /\ RestFilter /\ RestClip /\ RestFill /\ RestOrder /\ RestReader /\ RestPipe /\ RestDense /\ RestPhases /\ RestScan /\ RestRings /\ RestUnion
RestButClip == RestRoute /\ RestMerge /\ RestZoom /\ RestTW /\ RestFilter /\ RestTags /\ RestFill /\ RestOrder /\ RestReader /\ RestPipe /\ RestDense /\ RestPhases /\ RestScan /\ RestRings /\ RestUnion
RestButFill == RestRoute /\ RestMerge /\ RestZoom /\ RestTW /\ RestFilter /\ RestTags /\ RestClip /\ RestOrder /\ RestReader /\ RestPipe /\ RestDense /\ RestPhases /\ RestScan /\ RestRings /\ RestUnion
RestButOrder == RestRoute /\ RestMerge /\ RestZoom /\ RestTW /\ RestFilter /\ RestTags /\ RestClip /\ RestFill /\ RestReader /\ RestPipe /\ RestDense /\ RestPhases /\ RestScan /\ RestRings /\ RestUnion
RestButReader == RestRoute /\ RestMerge /\ RestZoom /\ RestTW /\ RestFilter /\ RestTags /\ RestClip /\ RestFill /\ RestOrder /\ RestPipe /\ RestDense /\ RestPhases /\ RestScan /\ RestRings /\ RestUnion
RestButPipe == RestRoute /\ RestMerge /\ RestZoom /\ RestTW /\ RestFilter /\ RestTags /\ RestClip /\ RestFill /\ RestOrder /\ RestReader /\ RestDense /\ RestPhases /\ RestScan /\ RestRings /\ RestUnion
RestButDense == RestRoute /\ RestMerge /\ RestZoom /\ RestTW /\ RestFilter /\ RestTags /\ RestClip /\ RestFill /\ RestOrder /\ RestReader /\ RestPipe /\ RestPhases /\ RestScan /\ RestRings /\ RestUnion
RestButPhases == RestRoute /\ RestMerge /\ RestZoom /\ RestTW /\ RestFilter /\ RestTags /\ RestClip /\ RestFill /\ RestOrder /\ RestReader /\ RestPipe /\ RestDense /\ RestScan /\ RestRings /\ RestUnion
RestButScan == RestRoute /\ RestMerge /\ RestZoom /\ RestTW /\ RestFilter /\ RestTags /\ RestClip /\ RestFill /\ RestOrder /\ RestReader /\ RestPipe /\ RestDense /\ RestPhases /\ RestRings /\ RestUnion
RestButRings == RestRoute /\ RestMerge /\ RestZoom /\ RestTW /\ RestFilter /\ RestTags /\ RestClip /\ RestFill /\ RestOrder /\ RestReader /\ RestPipe /\ RestDense /\ RestPhases /\ RestScan /\ RestUnion
RestButUnion == RestRoute /\ RestMerge /\ RestZoom /\ RestTW /\ RestFilter /\ RestTags /\ RestClip /\ RestFill /\ RestOrder /\ RestReader /\ RestPipe /\ RestDense /\ RestPhases /\ RestScan /\ RestRings

InitMerge == RestRoute /\ RestMerge /\ RestZoom /\ RestTW /\ RestOthers

SpecMerge == InitMerge /\ [][NextMerge /\ UNCHANGED <<varsRoute, varsZoom, varsTW, varsRest>>]_vars

(***************************************************************************)
(* WayStore::process_ways after the merge (osm_tool/src/way_store.rs):     *)
(* the per-zoom inclusion filter, the simplification and, with             *)
(* preserve_topology, the cutting of ways at the endpoints of other ways.  *)
(*                                                                         *)
(* Coordinates are integer pairs in units of 0.0005 degrees, so that the   *)
(* leftover length 0.0025 is 5 units and the simplification epsilon        *)
(* 0.000008 * z * z is 16 * z * z / 1000 units.                            *)
(***************************************************************************)
LineKinds == HighwayKinds \cup {"Rail"}

\* HighwayKind::get_layer, RailwayKind::get_layer, LineKind::get_layer
get_layer(line_kind) ==
    CASE line_kind = "Motorway" -> 16
      [] line_kind = "Trunk" -> 15
      [] line_kind = "Primary" -> 14
      [] line_kind = "Secondary" -> 13
      [] line_kind = "Tertiary" -> 12
      [] line_kind = "MotorwayLink" -> 11
      [] line_kind = "TrunkLink" -> 10
      [] line_kind = "PrimaryLink" -> 9
      [] line_kind = "SecondaryLink" -> 8
      [] line_kind = "TertiaryLink" -> 7
      [] line_kind = "Residential" -> 6
      [] line_kind = "Service" -> 5
      [] line_kind = "Unclassified" -> 4
      [] line_kind = "Footway" -> 3
      [] line_kind = "Rail" -> 17

\* way_store.rs 104-108 and 188-192
staircase(z, line_kind_layer) ==
    \/ z <= 4 /\ line_kind_layer >= 12
    \/ z <= 5 /\ line_kind_layer >= 13
    \/ z <= 6 /\ line_kind_layer >= 14
    \/ z <= 8 /\ line_kind_layer >= 15
    \/ line_kind_layer >= 16

\* The inclusion test of a Way at zoom z >= 1 (way_store.rs 173-193); without
\* topology the same chain sits behind `zoom_level == 0 => true` (87-109).
included_above_zero(z, line_kind) ==
    IF z <= 1 THEN line_kind # "Footway"
    ELSE IF line_kind = "Rail" THEN z < 4
    ELSE IF z >= 13 THEN FALSE
    ELSE staircase(z, get_layer(line_kind))

included(z, line_kind) == IF z = 0 THEN TRUE ELSE included_above_zero(z, line_kind)

\* create_coord_id: (coord * 1e12) as i64 per axis.  On the grid of the model
\* (multiples of 0.0005 degrees) the truncation cuts nothing off and the key
\* is the grid pair itself, up to the factor 5e8.
create_coord_id(coord) == <<coord[1], coord[2]>>

\* *map.entry(k).or_insert(dflt) += delta
CounterBump(m, k, dflt, delta) ==
    [x \in DOMAIN m \cup {k} |->
        IF x = k THEN (IF k \in DOMAIN m THEN m[k] ELSE dflt) + delta ELSE m[x]]

\* *map.entry(k).or_insert(0), read
CounterGet(m, k) == IF k \in DOMAIN m THEN m[k] ELSE 0

RECURSIVE BumpAll(_, _, _, _)
BumpAll(m, coords, dflt, delta) ==
    IF coords = <<>> THEN m
    ELSE BumpAll(CounterBump(m, create_coord_id(Head(coords)), dflt, delta),
                 Tail(coords), dflt, delta)

\* The contribution of one line to start_end_map and to nodes_counter
\* (way_store.rs 147-157 with +1, 204-215 with -1).
BumpEnds(m, line, dflt, delta) ==
    CounterBump(CounterBump(m, create_coord_id(line[1]), dflt, delta),
                create_coord_id(line[Len(line)]), dflt, delta)

RECURSIVE CountAll(_, _, _)
CountAll(ways, i, acc) ==
    IF i > Len(ways) THEN acc
    ELSE CountAll(ways, i + 1,
                  [se |-> BumpEnds(acc.se, ways[i].line, 0, 1),
                   nc |-> BumpAll(acc.nc, ways[i].line, 0, 1)])

\* Squared distance of p to the segment a-b as a numerator over |b - a|^2
\* (over 1 when a = b): Euclidean::distance(coord, &Line).
SegDistNum(p, a, b) ==
    LET l2 == (b[1] - a[1]) * (b[1] - a[1]) + (b[2] - a[2]) * (b[2] - a[2])
        pa2 == (p[1] - a[1]) * (p[1] - a[1]) + (p[2] - a[2]) * (p[2] - a[2])
        pb2 == (p[1] - b[1]) * (p[1] - b[1]) + (p[2] - b[2]) * (p[2] - b[2])
        dot == (p[1] - a[1]) * (b[1] - a[1]) + (p[2] - a[2]) * (b[2] - a[2])
        cross == (p[1] - a[1]) * (b[2] - a[2]) - (p[2] - a[2]) * (b[1] - a[1])
    IN  IF l2 = 0 THEN pa2
        ELSE IF dot <= 0 THEN pa2 * l2
        ELSE IF dot >= l2 THEN pb2 * l2
        ELSE cross * cross

SegDistDen(a, b) ==
    LET l2 == (b[1] - a[1]) * (b[1] - a[1]) + (b[2] - a[2]) * (b[2] - a[2])
    IN  IF l2 = 0 THEN 1 ELSE l2

\* distance > 0.000008 * z * z, in units of 0.0005 degrees:
\* num / den > (16 z^2 / 1000)^2  <=>  15625 * num > 4 * z^4 * den.
FartherThanEpsilon(num, den, z) == 15625 * num > 4 * z * z * z * z * den

\* The fold of compute_rdp: the last interior index of greatest distance.
RECURSIVE Farthest(_, _, _, _, _, _)
Farthest(line, lo, hi, i, best, bestNum) ==
    IF i >= hi THEN best
    ELSE LET n == SegDistNum(line[i], line[lo], line[hi])
         IN  IF n >= bestNum THEN Farthest(line, lo, hi, i + 1, i, n)
             ELSE Farthest(line, lo, hi, i + 1, best, bestNum)

\* An rdp that keeps the split vertex on both sides of the split.
RECURSIVE compute_rdp_twice(_, _, _, _)
compute_rdp_twice(line, lo, hi, z) ==
    IF hi = lo + 1 THEN <<line[lo], line[hi]>>
    ELSE
      LET f == Farthest(line, lo, hi, lo + 1, lo, 0)
      IN  IF FartherThanEpsilon(SegDistNum(line[f], line[lo], line[hi]),
                                SegDistDen(line[lo], line[hi]), z)
          THEN compute_rdp_twice(line, lo, f, z) \o compute_rdp_twice(line, f, hi, z)
          ELSE <<line[lo], line[hi]>>

\* geo's compute_rdp on line[lo..hi] (hi > lo): Ramer-Douglas-Peucker.
RECURSIVE compute_rdp(_, _, _, _)
compute_rdp(line, lo, hi, z) ==
    IF hi = lo + 1 THEN <<line[lo], line[hi]>>
    ELSE
      LET f == Farthest(line, lo, hi, lo + 1, lo, 0)
      IN  IF FartherThanEpsilon(SegDistNum(line[f], line[lo], line[hi]),
                                SegDistDen(line[lo], line[hi]), z)
          THEN SubSeq(compute_rdp(line, lo, f, z), 1,
                      Len(compute_rdp(line, lo, f, z)) - 1)
               \o compute_rdp(line, f, hi, z)
          ELSE <<line[lo], line[hi]>>

\* `if line.0.len() > 2 { line.simplify(0.000008 * zlf * zlf) } else { line }`;
\* simplify returns its input for an epsilon <= 0.
simplify_for_zoom(line, z) ==
    IF Len(line) > 2 /\ z > 0 THEN compute_rdp(line, 1, Len(line), z) ELSE line

\* line.length(&Euclidean) <= 0.0025, i.e. 5 units.  The length is taken with
\* each segment rounded up, which decides the comparison for every line of
\* the model (none has a length strictly between its rounded sums around 5).
CeilSqrt(n) == CHOOSE d \in 0..n : d * d >= n /\ (d = 0 \/ (d - 1) * (d - 1) < n)

RECURSIVE LineLength(_)
LineLength(line) ==
    IF Len(line) <= 1 THEN 0
    ELSE CeilSqrt((line[1][1] - line[2][1]) * (line[1][1] - line[2][1])
                  + (line[1][2] - line[2][2]) * (line[1][2] - line[2][2]))
         + LineLength(Tail(line))

LEFTOVER_LENGTH == 5

\* A scan that cuts only where two ends or more are counted.
IsCutVertexAboveOne(se, coord, temp) ==
    CounterGet(se, create_coord_id(coord)) > 1 /\ Len(temp) >= 2

\* A scan that cuts at every vertex.
IsCutVertexAlways(se, coord, temp) == Len(temp) >= 2

\* The scan cuts at a vertex on which a way still counted has an end, once
\* the line collected holds two vertices (way_store.rs 256-261).
IsCutVertex(se, coord, temp) ==
    CounterGet(se, create_coord_id(coord)) > 0 /\ Len(temp) >= 2

\* The scan of one way at a level z >= 1 with preserve_topology
\* (way_store.rs 241-291): st = [temp, prev_index, intersections, out].
RECURSIVE CutScan(_, _, _, _, _, _)
CutScan(way, z, se, connected, index, st) ==
    IF index > Len(way.line) THEN st.out
    ELSE
      LET coord == way.line[index]
          temp == Append(st.temp, coord)
      IN  IF IsCutVertex(se, coord, temp)
          THEN IF /\ index = Len(way.line)
                  /\ st.prev_index = 0
                  /\ st.intersections = 0
                  /\ ~connected
                  /\ LineLength(way.line) <= LEFTOVER_LENGTH
               THEN CutScan(way, z, se, connected, index + 1,
                            [st EXCEPT !.temp = temp])
               ELSE CutScan(way, z, se, connected, index + 1,
                            [temp |-> <<coord>>,
                             prev_index |-> index - 1,
                             intersections |-> st.intersections + 1,
                             out |-> Append(st.out,
                                       [zoom |-> z, id |-> way.id,
                                        line |-> simplify_for_zoom(temp, z)])])
          ELSE CutScan(way, z, se, connected, index + 1, [st EXCEPT !.temp = temp])

\* An emitter that takes an endpoint for connected as soon as one way, the
\* way itself, passes through it.
EmitWithTopologyOwnEnd(way, z, se, nc) ==
    CutScan(way, z, se,
            \/ CounterGet(nc, create_coord_id(way.line[1])) > 0
            \/ CounterGet(nc, create_coord_id(way.line[Len(way.line)])) > 0,
            1, [temp |-> <<>>, prev_index |-> 0, intersections |-> 0, out |-> <<>>])

EmitWithTopology(way, z, se, nc) ==
    CutScan(way, z, se,
            \/ CounterGet(nc, create_coord_id(way.line[1])) > 1
            \/ CounterGet(nc, create_coord_id(way.line[Len(way.line)])) > 1,
            1, [temp |-> <<>>, prev_index |-> 0, intersections |-> 0, out |-> <<>>])

\* A filter that keeps no seen set: an excluded way is subtracted again at
\* every later level.
RECURSIVE FilterLevelNoSeen(_, _, _, _)
FilterLevelNoSeen(ways, z, i, acc) ==
    IF i > Len(ways) THEN acc
    ELSE
      LET way == ways[i]
      IN  IF z = 0 \/ included_above_zero(z, way.line_kind) THEN
            FilterLevelNoSeen(ways, z, i + 1, [acc EXCEPT !.filtered = Append(@, way)])
          ELSE
            FilterLevelNoSeen(ways, z, i + 1,
                        [seen |-> acc.seen \cup {way.id},
                         se |-> BumpEnds(acc.se, way.line, 1, -1),
                         nc |-> BumpAll(acc.nc, way.line, 1, -1),
                         filtered |-> acc.filtered])

\* The filter_map of a level (way_store.rs 162-221): acc = [seen, se, nc,
\* filtered], the ways taken in order.
RECURSIVE FilterLevel(_, _, _, _)
FilterLevel(ways, z, i, acc) ==
    IF i > Len(ways) THEN acc
    ELSE
      LET way == ways[i]
      IN  IF z = 0 THEN
            FilterLevel(ways, z, i + 1, [acc EXCEPT !.filtered = Append(@, way)])
          ELSE IF way.id \in acc.seen THEN FilterLevel(ways, z, i + 1, acc)
          ELSE IF included_above_zero(z, way.line_kind) THEN
            FilterLevel(ways, z, i + 1, [acc EXCEPT !.filtered = Append(@, way)])
          ELSE
            FilterLevel(ways, z, i + 1,
                        [seen |-> acc.seen \cup {way.id},
                         se |-> BumpEnds(acc.se, way.line, 1, -1),
                         nc |-> BumpAll(acc.nc, way.line, 1, -1),
                         filtered |-> acc.filtered])

RECURSIVE EmitLevel(_, _, _, _, _)
EmitLevel(filtered, z, se, nc, i) ==
    IF i > Len(filtered) THEN <<>>
    ELSE (IF z = 0
          THEN <<[zoom |-> z, id |-> filtered[i].id,
                  line |-> simplify_for_zoom(filtered[i].line, z)]>>
          ELSE EmitWithTopology(filtered[i], z, se, nc))
         \o EmitLevel(filtered, z, se, nc, i + 1)

\* The merged ways handed to the emission: lines of one or more vertices, ids
\* distinct.  The scenes: a short and a long bent way apart from each other;
\* two short ways sharing an endpoint; a way ending on an inner vertex of
\* another; a stitched chain (its joint vertex twice) and a one-vertex way;
\* a closed way touched by another.
Scenes ==
    {<< <<<<0, 0>>, <<3, 0>>>>, <<<<0, 4>>, <<5, 5>>, <<10, 4>>>> >>,
     << <<<<0, 0>>, <<3, 0>>>>, <<<<3, 0>>, <<3, 4>>>> >>,
     << <<<<0, 0>>, <<4, 0>>, <<8, 1>>>>, <<<<4, 0>>, <<4, 3>>>> >>,
     << <<<<0, 0>>, <<2, 0>>, <<2, 0>>, <<4, 0>>>>, <<<<9, 9>>>> >>,
     << <<<<0, 0>>, <<3, 0>>, <<3, 4>>, <<0, 0>>>>, <<<<3, 4>>, <<6, 8>>>> >>}

MergedWays(scene, kinds) ==
    [i \in 1..Len(scene) |-> [id |-> i, line_kind |-> kinds[i], line |-> scene[i]]]

\* process_ways has merged the items and enters one of the two emitters;
\* with preserve_topology the two counters are filled first (143-159).
InitZoom ==
    /\ RestRoute /\ RestMerge /\ RestTW /\ RestOthers
    /\ \E scene \in Scenes : \E kinds \in [1..Len(scene) -> LineKinds] :
          data = MergedWays(scene, kinds)
    /\ preserve_topology \in BOOLEAN
    /\ zoom_level = 0
    /\ way_index = 1
    /\ temp_line = IF preserve_topology THEN <<>> ELSE data[1].line
    /\ seen = {}
    /\ start_end_map = IF preserve_topology
                       THEN CountAll(data, 1, [se |-> <<>>, nc |-> <<>>]).se ELSE <<>>
    /\ nodes_counter = IF preserve_topology
                       THEN CountAll(data, 1, [se |-> <<>>, nc |-> <<>>]).nc ELSE <<>>
    /\ sent = <<>>
    /\ emitted_at = {}

\* One turn of `for zoom_level in 0..ZOOM_LEVELS` of
\* process_with_preserve_topology: the filter, then the emission.
TopologyLevel ==
    /\ preserve_topology
    /\ zoom_level < ZOOM_LEVELS
    /\ LET f == FilterLevel(data, zoom_level, 1,
                            [seen |-> seen, se |-> start_end_map,
                             nc |-> nodes_counter, filtered |-> <<>>])
           out == EmitLevel(f.filtered, zoom_level, f.se, f.nc, 1)
       IN  /\ seen' = f.seen
           /\ start_end_map' = f.se
           /\ nodes_counter' = f.nc
           /\ sent' = out
           /\ emitted_at' = emitted_at \cup {<<out[i].id, zoom_level>> : i \in 1..Len(out)}
    /\ zoom_level' = zoom_level + 1
    /\ UNCHANGED <<data, preserve_topology, way_index, temp_line>>

\* One turn of the inner loop of process_without_preserve_topology for the
\* way at way_index: send the line simplified once more, or break and go on
\* to the next way.
PlainZoomStep ==
    /\ ~preserve_topology
    /\ way_index <= Len(data)
    /\ LET way == data[way_index]
           line == simplify_for_zoom(temp_line, zoom_level)
           goOn == included(zoom_level, way.line_kind)
           nextWay == ~goOn \/ zoom_level + 1 = ZOOM_LEVELS
       IN  /\ sent' = IF goOn THEN <<[zoom |-> zoom_level, id |-> way.id, line |-> line]>>
                      ELSE <<>>
           /\ emitted_at' = IF goOn THEN emitted_at \cup {<<way.id, zoom_level>>}
                            ELSE emitted_at
           /\ way_index' = IF nextWay THEN way_index + 1 ELSE way_index
           /\ zoom_level' = IF nextWay THEN 0 ELSE zoom_level + 1
           /\ temp_line' = IF ~nextWay THEN line
                           ELSE IF way_index + 1 <= Len(data) THEN data[way_index + 1].line
                           ELSE <<>>
    /\ UNCHANGED <<data, preserve_topology, seen, start_end_map, nodes_counter>>

NextZoom == TopologyLevel \/ PlainZoomStep

SpecZoom == InitZoom /\ [][NextZoom /\ UNCHANGED <<varsRoute, varsMerge, varsTW, varsRest>>]_vars

(***************************************************************************)
(* TileWriter (osm/src/tile_writer/tile_writer.rs): add_to_tiles hands one *)
(* clip job per geometry to a thread pool, the jobs send their records     *)
(* into a channel, flush_to_collections drains the channel into            *)
(* tile_db_map and save_to_file sorts and stores the collections.          *)
(*                                                                         *)
(* Coordinates are integer pairs measured from the minimum corner of the   *)
(* world rectangle, each axis in units of 1/200 of a zoom-9 tile, so that  *)
(* the tile rectangles scaled by 1.01 have integer corners from zoom 9 on. *)
(***************************************************************************)
TILES_COUNT == 32768

MIN_ZOOM_FOR_PLANET_TILES == 10

\* get_world_boundary: the width and the height of the world, in units.
WORLD_UNITS == 12800

POOL_THREADS_NEW == 3

POOL_THREADS_FLUSHED == 2

MaxJobs == 2

MaxFlushes == 1

SetMax(S) == CHOOSE x \in S : \A y \in S : x >= y

RECURSIVE Pow2(_)
Pow2(n) == IF n = 0 THEN 1 ELSE 2 * Pow2(n - 1)

\* (TILES_COUNT / 2i32.pow(zoom_level)).max(1)
TilesCount(zoom) == Max2(TILES_COUNT \div Pow2(zoom), 1)

TileKey(x, y, zoom) == [tile_x |-> x, tile_y |-> y, zoom_level |-> zoom]

\* TileKey::calc_tile_boundary(scale_factor), the factor in percent; Rect::scale
\* grows the rectangle about its centre.
calc_tile_boundary(key, percent) ==
    LET w == WORLD_UNITS \div TilesCount(key.zoom_level)
        margin == (w * (percent - 100)) \div 200
    IN  [min |-> <<w * key.tile_x - margin, w * key.tile_y - margin>>,
         max |-> <<w * (key.tile_x + 1) + margin, w * (key.tile_y + 1) + margin>>]

\* MapGeometry::bounding_rect
bounding_rect(geom) ==
    [min |-> <<SetMin({geom.coords[i][1] : i \in DOMAIN geom.coords}),
               SetMin({geom.coords[i][2] : i \in DOMAIN geom.coords})>>,
     max |-> <<SetMax({geom.coords[i][1] : i \in DOMAIN geom.coords}),
               SetMax({geom.coords[i][2] : i \in DOMAIN geom.coords})>>]

\* A tile index rounded to the nearest tile.
TileIndexRounded(zoom, u) ==
    Max2(0, Min2((2 * TilesCount(zoom) * u + WORLD_UNITS) \div (2 * WORLD_UNITS),
                 TilesCount(zoom) - 1))

\* (tiles_count * ((v - world.min) / world.width)) as i32, clamped
TileIndex(zoom, u) ==
    Max2(0, Min2((TilesCount(zoom) * u) \div WORLD_UNITS, TilesCount(zoom) - 1))

calc_tile_ranges(zoom, rect) ==
    [min_x |-> TileIndex(zoom, rect.min[1]), max_x |-> TileIndex(zoom, rect.max[1]),
     min_y |-> TileIndex(zoom, rect.min[2]), max_y |-> TileIndex(zoom, rect.max[2])]

\* geo: Rect contains Rect (closed), Rect intersects Rect (closed),
\* Rect contains Coord (open: the boundary is not contained).
RectContainsRect(a, b) ==
    /\ a.min[1] <= b.min[1] /\ a.max[1] >= b.max[1]
    /\ a.min[2] <= b.min[2] /\ a.max[2] >= b.max[2]

RectIntersectsRect(a, b) ==
    /\ a.min[1] <= b.max[1] /\ b.min[1] <= a.max[1]
    /\ a.min[2] <= b.max[2] /\ b.min[2] <= a.max[2]

RectContainsCoord(r, c) ==
    /\ c[1] > r.min[1] /\ c[1] < r.max[1]
    /\ c[2] > r.min[2] /\ c[2] < r.max[2]

\* Rect::to_lines
RectLines(r) ==
    {<<<<r.max[1], r.min[2]>>, <<r.max[1], r.max[2]>>>>,
     <<<<r.max[1], r.max[2]>>, <<r.min[1], r.max[2]>>>>,
     <<<<r.min[1], r.max[2]>>, <<r.min[1], r.min[2]>>>>,
     <<<<r.min[1], r.min[2]>>, <<r.max[1], r.min[2]>>>>}

Orient(a, b, c) ==
    LET v == (b[1] - a[1]) * (c[2] - a[2]) - (b[2] - a[2]) * (c[1] - a[1])
    IN  IF v > 0 THEN 1 ELSE IF v < 0 THEN -1 ELSE 0

LexLeq(p, q) == p[1] < q[1] \/ (p[1] = q[1] /\ p[2] <= q[2])

LexMin(p, q) == IF LexLeq(p, q) THEN p ELSE q

LexMax(p, q) == IF LexLeq(p, q) THEN q ELSE p

\* geo::line_intersection(a, b) is Some(SinglePoint): the two segments meet
\* in exactly one point (collinear segments that overlap in more are
\* Collinear, which rect_intersection skips).
MeetInSinglePoint(a, b) ==
    LET o1 == Orient(a[1], a[2], b[1])
        o2 == Orient(a[1], a[2], b[2])
        o3 == Orient(b[1], b[2], a[1])
        o4 == Orient(b[1], b[2], a[2])
    IN  IF o1 = 0 /\ o2 = 0 /\ o3 = 0 /\ o4 = 0
        THEN LexMax(LexMin(a[1], a[2]), LexMin(b[1], b[2]))
                = LexMin(LexMax(a[1], a[2]), LexMax(b[1], b[2]))
        ELSE o1 * o2 <= 0 /\ o3 * o4 <= 0

\* rect_intersection(rect, line).is_some()
rect_intersection(rect, line) == \E rect_line \in RectLines(rect) : MeetInSinglePoint(rect_line, line)

\* The Line arm of intersection: the runs of consecutive segments that touch
\* the tile, each of two vertices or more.
RECURSIVE ClipLine(_, _, _, _, _)
ClipLine(coords, tile_rect, index, new_line, multi_line) ==
    IF index > Len(coords)
    THEN IF Len(new_line) > 1 THEN Append(multi_line, new_line) ELSE multi_line
    ELSE IF /\ index > 1
            /\ ~RectContainsCoord(tile_rect, coords[index - 1])
            /\ ~RectContainsCoord(tile_rect, coords[index])
            /\ ~rect_intersection(tile_rect, <<coords[index - 1], coords[index]>>)
    THEN ClipLine(coords, tile_rect, index + 1, <<coords[index]>>,
                  IF Len(new_line) > 1 THEN Append(multi_line, new_line) ELSE multi_line)
    ELSE ClipLine(coords, tile_rect, index + 1, Append(new_line, coords[index]), multi_line)

\* TileWriter::intersection, for Line and Coord geometries
intersection(map_geometry, tile_rect, geom_rect) ==
    IF RectContainsRect(tile_rect, geom_rect) THEN <<map_geometry>>
    ELSE IF ~RectIntersectsRect(geom_rect, tile_rect) THEN <<>>
    ELSE IF map_geometry.type = "Line"
    THEN LET lines == ClipLine(map_geometry.coords, tile_rect, 1, <<>>, <<>>)
         IN  [k \in 1..Len(lines) |-> [type |-> "Line", coords |-> lines[k]]]
    ELSE <<map_geometry>>

\* A fill_map that lets planet data create tiles one zoom level too early.
AcceptKeyFromNine(force, zoom, keys_cache, key) ==
    force \/ zoom >= MIN_ZOOM_FOR_PLANET_TILES - 1 \/ key \in keys_cache

\* The test of fill_map on a key
AcceptKey(force, zoom, keys_cache, key) ==
    force \/ zoom >= MIN_ZOOM_FOR_PLANET_TILES \/ key \in keys_cache

\* fill_map: the records one job sends, in the order it sends them.
RECURSIVE fill_map(_, _, _, _, _)
fill_map(job, geom_rect, tile_ranges, i, j) ==
    IF i > tile_ranges.max_x THEN <<>>
    ELSE IF j > tile_ranges.max_y
    THEN fill_map(job, geom_rect, tile_ranges, i + 1, tile_ranges.min_y)
    ELSE
      LET key == TileKey(i, j, job.zoom_level)
          items == IF AcceptKey(job.can_create_new_tiles, job.zoom_level,
                                job.tile_keys_cache, key)
                   THEN intersection(job.map_geometry,
                                     calc_tile_boundary(key, 101), geom_rect)
                   ELSE <<>>
      IN  [k \in 1..Len(items) |-> <<key, job.map_geom_object, items[k]>>]
          \o fill_map(job, geom_rect, tile_ranges, i, j + 1)

\* The closure add_to_tiles hands to the pool.
JobRecords(job) ==
    LET geom_rect == bounding_rect(job.map_geometry)
        ranges == calc_tile_ranges(job.zoom_level, geom_rect)
    IN  fill_map(job, geom_rect, ranges, ranges.min_x, ranges.min_y)

\* The derived order of MapGeomObjectKind with the hand-written orders of
\* WayInfo (layer_kind, layer, line_kind.get_layer(); name_en plays no part)
\* and MapPointInfo (kind only; text plays no part), as a tuple to compare
\* lexicographically.
LayerKindRank(layer_kind) ==
    CASE layer_kind = "Tunnel" -> 0 [] layer_kind = "None" -> 1 [] layer_kind = "Bridge" -> 2

NatureRank(nature) ==
    CASE nature = "Ground" -> 0 [] nature = "Park" -> 1
      [] nature = "Forest" -> 2 [] nature = "Water" -> 3

PointRank(point) ==
    CASE point = "PopArea" -> 0 [] point = "TrafficLight" -> 1 [] point = "Toilet" -> 2
      [] point = "Parking" -> 3 [] point = "Text" -> 4

KindKey(kind) ==
    CASE kind.tag = "Nature" -> <<0, NatureRank(kind.nature), 0, 0>>
      [] kind.tag = "Building" -> <<1, 0, 0, 0>>
      [] kind.tag = "Way" -> <<2, LayerKindRank(kind.info.layer_kind), kind.info.layer,
                               get_layer(kind.info.line_kind)>>
      [] kind.tag = "Route" -> <<3, 0, 0, 0>>
      [] kind.tag = "AdminLine" -> <<4, 0, 0, 0>>
      [] kind.tag = "Poi" -> <<5, PointRank(kind.point), 0, 0>>

\* MapGeomObject::cmp(a, b) == Less
ObjLess(a, b) ==
    LET x == KindKey(a.kind)
        y == KindKey(b.kind)
    IN  \E i \in 1..4 : x[i] < y[i] /\ \A h \in 1..(i - 1) : x[h] = y[h]

\* An insertion that puts the new element before the elements equal to it.
InsertBeforeEqual(sorted, e) ==
    LET n == Cardinality({i \in 1..Len(sorted) : ObjLess(sorted[i][1], e[1])})
    IN  SubSeq(sorted, 1, n) \o <<e>> \o SubSeq(sorted, n + 1, Len(sorted))

\* The insertion step of the stable sort: after everything not greater.
InsertStable(sorted, e) ==
    LET n == Cardinality({i \in 1..Len(sorted) : ~ObjLess(e[1], sorted[i][1])})
    IN  SubSeq(sorted, 1, n) \o <<e>> \o SubSeq(sorted, n + 1, Len(sorted))

\* data.0.sort_by(|(a, _), (b, _)| a.cmp(b)): slice::sort_by is stable.
RECURSIVE sort_by(_)
sort_by(collection) ==
    IF collection = <<>> THEN <<>>
    ELSE InsertStable(sort_by(SubSeq(collection, 1, Len(collection) - 1)),
                      collection[Len(collection)])

\* convert_coords: lat_lon_to_world(coord) - tile_rect_origin, the projection
\* kept symbolic.
convert_coords(geom, tile_rect_origin) ==
    [type |-> geom.type,
     coords |-> [i \in DOMAIN geom.coords |->
                   [world |-> geom.coords[i], minus_world |-> tile_rect_origin]]]

\* convert_data: every coordinate `as f32`
convert_data(geom) ==
    [type |-> geom.type,
     coords |-> [i \in DOMAIN geom.coords |-> [f32 |-> geom.coords[i]]]]

\* What add_to_tiles is called with: a way that crosses from tile (0,0,9)
\* into (1,0,9) and back, a toilet, an admin line at zoom 9 and one at
\* zoom 10 (planet data).
TileInputs ==
    {[zoom_level |-> 9, can_create_new_tiles |-> TRUE,
      kind |-> [tag |-> "Way", info |-> [line_kind |-> "Primary", layer |-> 0,
                                         layer_kind |-> "None", name_en |-> "none"]],
      map_geometry |-> [type |-> "Line",
                        coords |-> <<<<50, 50>>, <<250, 50>>, <<250, 150>>, <<50, 150>>>>]],
     [zoom_level |-> 9, can_create_new_tiles |-> TRUE,
      kind |-> [tag |-> "Poi", point |-> "Toilet"],
      map_geometry |-> [type |-> "Coord", coords |-> <<<<50, 50>>>>]],
     [zoom_level |-> 9, can_create_new_tiles |-> FALSE,
      kind |-> [tag |-> "AdminLine"],
      map_geometry |-> [type |-> "Line", coords |-> <<<<50, 50>>, <<50, 250>>>>]],
     [zoom_level |-> 10, can_create_new_tiles |-> FALSE,
      kind |-> [tag |-> "AdminLine"],
      map_geometry |-> [type |-> "Line", coords |-> <<<<50, 50>>, <<450, 50>>>>]]}

\* TileWriter::new
InitTW ==
    /\ RestRoute /\ RestMerge /\ RestZoom /\ RestOthers
    /\ tw_pc = "ready"
    /\ sender = TRUE
    /\ channel = <<>>
    /\ job_queue = <<>>
    /\ running = {}
    /\ pool_threads = POOL_THREADS_NEW
    /\ tile_db_map = <<>>
    /\ tile_keys_cache = {}
    /\ flush_arg = "none"
    /\ flushes = 0
    /\ submitted = <<>>
    /\ captured = {}
    /\ accumulated = <<>>
    /\ persisted = <<>>

MainThreadFree == tw_pc \in {"ready", "flushed"} /\ flush_arg # "save"

\* The cache as add_to_tiles leaves it (tile_writer.rs 65-69).
CacheAfter(can_create_new_tiles) ==
    IF ~can_create_new_tiles /\ tile_keys_cache = {}
    THEN DOMAIN tile_db_map ELSE tile_keys_cache

\* add_to_tiles with the channel open: the job is queued with a clone of the
\* sender and of the cache; the object gets the next id.
add_to_tiles(input) ==
    /\ MainThreadFree
    /\ sender
    /\ Len(submitted) < MaxJobs
    /\ LET cache == CacheAfter(input.can_create_new_tiles)
           job == [zoom_level |-> input.zoom_level,
                   map_geom_object |-> [id |-> Len(submitted) + 1, kind |-> input.kind],
                   map_geometry |-> input.map_geometry,
                   can_create_new_tiles |-> input.can_create_new_tiles,
                   tile_keys_cache |-> cache]
       IN  /\ tile_keys_cache' = cache
           /\ captured' = IF ~input.can_create_new_tiles /\ tile_keys_cache = {}
                          THEN captured \cup {DOMAIN tile_db_map} ELSE captured
           /\ job_queue' = Append(job_queue, job)
           /\ submitted' = Append(submitted, job)
    /\ tw_pc' = "ready"
    /\ UNCHANGED <<sender, channel, running, pool_threads, tile_db_map, flush_arg,
                   flushes, accumulated, persisted>>

\* add_to_tiles after flush_to_collections(false): self.sender is None and
\* the unwrap panics, the cache having been looked at first.
add_to_tiles_closed(input) ==
    /\ MainThreadFree
    /\ ~sender
    /\ Len(submitted) < MaxJobs
    /\ tile_keys_cache' = CacheAfter(input.can_create_new_tiles)
    /\ captured' = IF ~input.can_create_new_tiles /\ tile_keys_cache = {}
                   THEN captured \cup {DOMAIN tile_db_map} ELSE captured
    /\ tw_pc' = "panicked"
    /\ UNCHANGED <<sender, channel, job_queue, running, pool_threads, tile_db_map,
                   flush_arg, flushes, submitted, accumulated, persisted>>

\* A free worker of the pool takes the oldest queued job.
WorkerStart ==
    /\ job_queue # <<>>
    /\ Cardinality(running) < pool_threads
    /\ running' = running \cup {[job |-> Head(job_queue),
                                 rest |-> JobRecords(Head(job_queue)),
                                 sender |-> TRUE]}
    /\ job_queue' = Tail(job_queue)
    /\ UNCHANGED <<tw_pc, sender, channel, pool_threads, tile_db_map, tile_keys_cache,
                   flush_arg, flushes, submitted, captured, accumulated, persisted>>

\* sender.send((key, map_geom_object.clone(), item))
WorkerSend(w) ==
    /\ w.rest # <<>>
    /\ channel' = Append(channel, Head(w.rest))
    /\ running' = (running \ {w}) \cup {[w EXCEPT !.rest = Tail(w.rest)]}
    /\ UNCHANGED <<tw_pc, sender, job_queue, pool_threads, tile_db_map, tile_keys_cache,
                   flush_arg, flushes, submitted, captured, accumulated, persisted>>

\* fill_map returns: the job's clone of the sender is dropped.
WorkerDropSender(w) ==
    /\ w.rest = <<>>
    /\ w.sender
    /\ running' = (running \ {w}) \cup {[w EXCEPT !.sender = FALSE]}
    /\ UNCHANGED <<tw_pc, sender, channel, job_queue, pool_threads, tile_db_map,
                   tile_keys_cache, flush_arg, flushes, submitted, captured,
                   accumulated, persisted>>

\* The closure is over: the worker is free again.
WorkerDone(w) ==
    /\ ~w.sender
    /\ running' = running \ {w}
    /\ UNCHANGED <<tw_pc, sender, channel, job_queue, pool_threads, tile_db_map,
                   tile_keys_cache, flush_arg, flushes, submitted, captured,
                   accumulated, persisted>>

\* flush_to_collections(recreate_channel) is entered: self.sender = None.
FlushBegin(arg) ==
    /\ MainThreadFree
    /\ flushes < MaxFlushes
    /\ sender' = FALSE
    /\ flush_arg' = arg
    /\ flushes' = flushes + 1
    /\ tw_pc' = "draining"
    /\ UNCHANGED <<channel, job_queue, running, pool_threads, tile_db_map,
                   tile_keys_cache, submitted, captured, accumulated, persisted>>

\* save_to_file is entered and calls flush_to_collections(false).
SaveBegin ==
    /\ MainThreadFree
    /\ sender' = FALSE
    /\ flush_arg' = "save"
    /\ flushes' = flushes + 1
    /\ tw_pc' = "draining"
    /\ UNCHANGED <<channel, job_queue, running, pool_threads, tile_db_map,
                   tile_keys_cache, submitted, captured, accumulated, persisted>>

\* tile_db_map.entry(key).or_default().0.push((object, geometry))
PushRecord(map, rec) ==
    [key \in DOMAIN map \cup {rec[1]} |->
        IF key = rec[1]
        THEN Append(IF key \in DOMAIN map THEN map[key] ELSE <<>>, <<rec[2], rec[3]>>)
        ELSE map[key]]

\* One turn of `for data in &self.receiver`.
DrainRecv ==
    /\ tw_pc = "draining"
    /\ channel # <<>>
    /\ tile_db_map' = PushRecord(tile_db_map, Head(channel))
    /\ channel' = Tail(channel)
    /\ UNCHANGED <<tw_pc, sender, job_queue, running, pool_threads, tile_keys_cache,
                   flush_arg, flushes, submitted, captured, accumulated, persisted>>

\* A receiver that gives up as soon as the writer's own sender is gone.
AllSendersDroppedOwnOnly == ~sender

\* The channel is disconnected: the writer's sender and the clone of every
\* job, queued or running, are dropped.
AllSendersDropped ==
    /\ ~sender
    /\ job_queue = <<>>
    /\ \A w \in running : ~w.sender

\* The receiver's iterator ends: the channel is empty and disconnected.
DrainEnd ==
    /\ tw_pc = "draining"
    /\ channel = <<>>
    /\ AllSendersDropped
    /\ tw_pc' = "joining"
    /\ UNCHANGED <<sender, channel, job_queue, running, pool_threads, tile_db_map,
                   tile_keys_cache, flush_arg, flushes, submitted, captured,
                   accumulated, persisted>>

\* thread_pool.join() returns, the pool is replaced and, if asked for, the
\* channel too: flush_to_collections returns.
Join ==
    /\ tw_pc = "joining"
    /\ job_queue = <<>>
    /\ running = {}
    /\ pool_threads' = POOL_THREADS_FLUSHED
    /\ sender' = (flush_arg = "recreate")
    /\ channel' = IF flush_arg = "recreate" THEN <<>> ELSE channel
    /\ tw_pc' = "flushed"
    /\ UNCHANGED <<job_queue, running, tile_db_map, tile_keys_cache, flush_arg,
                   flushes, submitted, captured, accumulated, persisted>>

\* perform_queries: every collection is sorted in place, its coordinates are
\* made tile-local in place, and its f32 copy is inserted as a row.
perform_queries ==
    /\ tw_pc = "flushed"
    /\ flush_arg = "save"
    /\ accumulated' = tile_db_map
    /\ tile_db_map' =
          [key \in DOMAIN tile_db_map |->
             LET sorted == sort_by(tile_db_map[key])
                 origin == calc_tile_boundary(key, 100).min
             IN  [i \in 1..Len(sorted) |->
                    <<sorted[i][1], convert_coords(sorted[i][2], origin)>>]]
    /\ persisted' =
          [key \in DOMAIN tile_db_map |->
             [i \in 1..Len(tile_db_map'[key]) |->
                <<tile_db_map'[key][i][1], convert_data(tile_db_map'[key][i][2])>>]]
    /\ tw_pc' = "saved"
    /\ UNCHANGED <<sender, channel, job_queue, running, pool_threads, tile_keys_cache,
                   flush_arg, flushes, submitted, captured>>

NextTW ==
    \/ \E input \in TileInputs : add_to_tiles(input)
    \/ \E input \in TileInputs : add_to_tiles_closed(input)
    \/ WorkerStart
    \/ \E w \in running : WorkerSend(w)
    \/ \E w \in running : WorkerDropSender(w)
    \/ \E w \in running : WorkerDone(w)
    \/ \E arg \in {"recreate", "keep"} : FlushBegin(arg)
    \/ SaveBegin
    \/ DrainRecv
    \/ DrainEnd
    \/ Join
    \/ perform_queries

SpecTW == InitTW /\ [][NextTW /\ UNCHANGED <<varsRoute, varsMerge, varsZoom, varsRest>>]_vars

InitRoute == RestRoute /\ RestMerge /\ RestZoom /\ RestTW /\ RestOthers

SpecRoute == InitRoute /\ [][NextRoute /\ UNCHANGED <<varsMerge, varsZoom, varsTW, varsRest>>]_vars

(***************************************************************************)
(* TagFilter (osm_tool/src/filter.rs): the filter strings are resolved to  *)
(* string-table indices once, and tags are then matched by index.          *)
(***************************************************************************)
Strings == {"a", "b", "c"}

MaxTable == 3

\* Option<T>: <<>> is None, <<x>> is Some(x).
None == <<>>

Some(x) == <<x>>

\* The filter lists TagFilter::new is called with.
FilterLists ==
    {<<[k |-> "a", v |-> Some("b")], [k |-> "b", v |-> None]>>,
     <<[k |-> "a", v |-> None]>>,
     <<[k |-> "a", v |-> Some("b")], [k |-> "a", v |-> Some("c")]>>,
     <<[k |-> "c", v |-> Some("a")]>>}

\* The strings new() keeps: those equal to a filter key or a filter value.
Wanted(ftags, str) ==
    \E n \in 1..Len(ftags) : ftags[n].k = str \/ ftags[n].v = Some(str)

\* tag_map (filter.rs 9-30): collected into a HashMap in table order, so a
\* string that occurs twice keeps its last index.
TagMap(table, ftags) ==
    [str \in {table[i] : i \in {j \in DOMAIN table : Wanted(ftags, table[j])}} |->
        CHOOSE i \in DOMAIN table :
            table[i] = str /\ \A j \in DOMAIN table : table[j] = str => j <= i]

\* filter (filter.rs 32-50): the entries whose strings are all in tag_map.
RECURSIVE Compile(_, _, _)
Compile(tag_map, ftags, n) ==
    IF n > Len(ftags) THEN <<>>
    ELSE LET f == ftags[n]
         IN  (IF f.k \notin DOMAIN tag_map THEN <<>>
              ELSE IF f.v = None THEN <<[k |-> tag_map[f.k], v |-> None]>>
              ELSE IF f.v[1] \notin DOMAIN tag_map THEN <<>>
              ELSE <<[k |-> tag_map[f.k], v |-> Some(tag_map[f.v[1]])]>>)
             \o Compile(tag_map, ftags, n + 1)

\* TagFilter::new
TagFilterNew(table, ftags) == Compile(TagMap(table, ftags), ftags, 1)

\* The inner loop of filter for one tag: is there an entry it returns at?
EntryReturns(flt, k, v) ==
    \E n \in 1..Len(flt) : flt[n].k = k /\ (flt[n].v = None \/ flt[n].v = Some(v))

\* TagFilter::filter with the tags visited in the given order of keys.
RECURSIVE FilterScan(_, _, _, _)
FilterScan(flt, table, tags, order) ==
    IF order = <<>> THEN None
    ELSE IF EntryReturns(flt, Head(order), tags[Head(order)])
    THEN Some(<<table[Head(order)], table[tags[Head(order)]]>>)
    ELSE FilterScan(flt, table, tags, Tail(order))

Orders(S) == {o \in [1..Cardinality(S) -> S] : \A i, j \in DOMAIN o : o[i] = o[j] => i = j}

Tables == UNION {[0..(n - 1) -> Strings] : n \in 1..MaxTable}

\* A blob's string table has been read and TagFilter::new has run on it.
InitFilter ==
    /\ RestButFilter
    /\ string_table \in Tables
    /\ filter_tags \in FilterLists
    /\ tag_filter = TagFilterNew(string_table, filter_tags)
    /\ filter_result = <<"idle">>

\* filter(string_table, tags): tags is a HashMap<u32, u32> of indices into
\* the table, visited in an order the hasher decides.  The call changes
\* nothing in the filter, so one call per filter is followed.
filter(tags, order) ==
    /\ filter_result[1] = "idle"
    /\ filter_result' = <<"returned", tags, FilterScan(tag_filter, string_table, tags, order)>>
    /\ UNCHANGED <<string_table, filter_tags, tag_filter, varsButFilter>>

NextFilter ==
    \E keys \in SUBSET DOMAIN string_table :
        \E tags \in [keys -> DOMAIN string_table] :
            \E order \in Orders(keys) : filter(tags, order)

SpecFilter == InitFilter /\ [][NextFilter /\ UNCHANGED <<varsRoute, varsMerge, varsZoom, varsTW>>]_vars

(***************************************************************************)
(* TagIterator (osm_tool/src/tags.rs): the packed tags of dense nodes, one *)
(* map per node.                                                           *)
(***************************************************************************)
MaxPacked == 4

PackedValues == 0..2

\* The streams the iterator is made over: every short one, and the one of
\* test_tag_iterator.
PackedStreams ==
    UNION {[1..n -> PackedValues] : n \in 0..MaxPacked} \cup {<<1, 2, 3, 4, 0, 2, 1>>}

\* A next() that forgets the group the stream ends in.
RECURSIVE NextLoopNoTail(_, _)
NextLoopNoTail(iter, tags) ==
    IF iter = <<>>
    THEN [item |-> None, iter |-> iter, tags |-> tags]
    ELSE IF Head(iter) = 0
    THEN [item |-> Some(tags), iter |-> Tail(iter), tags |-> <<>>]
    ELSE IF Tail(iter) = <<>>
    THEN [item |-> None, iter |-> <<>>, tags |-> tags]
    ELSE NextLoopNoTail(Tail(Tail(iter)), MapInsert(tags, Head(iter), Head(Tail(iter))))

\* The loop of next() with the map carried along: what is returned, what is
\* left of the stream and of the map.
RECURSIVE NextLoop(_, _)
NextLoop(iter, tags) ==
    IF iter = <<>>
    THEN IF tags = <<>>
         THEN [item |-> None, iter |-> iter, tags |-> tags]
         ELSE [item |-> Some(tags), iter |-> iter, tags |-> <<>>]
    ELSE IF Head(iter) = 0
    THEN [item |-> Some(tags), iter |-> Tail(iter), tags |-> <<>>]
    ELSE IF Tail(iter) = <<>>
    THEN [item |-> None, iter |-> <<>>, tags |-> tags]
    ELSE NextLoop(Tail(Tail(iter)), MapInsert(tags, Head(iter), Head(Tail(iter))))

\* packed.into_iter().tags()
InitTags ==
    /\ RestButTags
    /\ packed_tags \in PackedStreams
    /\ packed_iter = packed_tags
    /\ iter_tags = <<>>
    /\ yielded = <<>>
    /\ iter_done = FALSE

\* One call of next() by a consumer that stops at the first None (collect,
\* izip!).
TagIteratorNext ==
    /\ ~iter_done
    /\ LET r == NextLoop(packed_iter, iter_tags)
       IN  /\ packed_iter' = r.iter
           /\ iter_tags' = r.tags
           /\ yielded' = IF r.item = None THEN yielded ELSE Append(yielded, r.item[1])
           /\ iter_done' = (r.item = None)
    /\ UNCHANGED <<packed_tags, varsButTags>>

NextTags == TagIteratorNext

SpecTags == InitTags /\ [][NextTags /\ UNCHANGED <<varsRoute, varsMerge, varsZoom, varsTW>>]_vars

(***************************************************************************)
(* sutherland_hodgman_clip (osm/src/tiles/sutherland_hodgman.rs): a ring   *)
(* is cut against the four sides of a rectangle in turn.                   *)
(*                                                                         *)
(* The rings of the model have integer vertices and sides that are         *)
(* horizontal, vertical or diagonal; every cut point is then an integer    *)
(* point and the quotient of intersect_edge is exact.                      *)
(***************************************************************************)
MaxRing == 3

GridPoints == (0..4) \X (0..4)

ClipRects == {[min |-> <<1, 1>>, max |-> <<3, 3>>]}

\* A get_side that takes the boundary of the rectangle for outside.
get_side_open(coord, rect) ==
    (IF coord[1] <= rect.min[1] THEN {1} ELSE IF coord[1] >= rect.max[1] THEN {2} ELSE {})
    \cup
    (IF coord[2] <= rect.min[2] THEN {4} ELSE IF coord[2] >= rect.max[2] THEN {8} ELSE {})

\* get_side, the code as the set of its bits; they are also the edges the
\* clip goes through: 1 left, 2 right, 4 below, 8 above.
get_side(coord, rect) ==
    (IF coord[1] < rect.min[1] THEN {1} ELSE IF coord[1] > rect.max[1] THEN {2} ELSE {})
    \cup
    (IF coord[2] < rect.min[2] THEN {4} ELSE IF coord[2] > rect.max[2] THEN {8} ELSE {})

intersect_edge(a, b, side, rect) ==
    CASE side = 8 ->
           <<a[1] + ((b[1] - a[1]) * (rect.max[2] - a[2])) \div (b[2] - a[2]), rect.max[2]>>
      [] side = 4 ->
           <<a[1] + ((b[1] - a[1]) * (rect.min[2] - a[2])) \div (b[2] - a[2]), rect.min[2]>>
      [] side = 2 ->
           <<rect.max[1], a[2] + ((b[2] - a[2]) * (rect.max[1] - a[1])) \div (b[1] - a[1])>>
      [] side = 1 ->
           <<rect.min[1], a[2] + ((b[2] - a[2]) * (rect.min[1] - a[1])) \div (b[1] - a[1])>>

\* The `for p in points` loop for one edge.
RECURSIVE ClipEdge(_, _, _, _, _, _)
ClipEdge(points, i, prev, edge, rect, result) ==
    IF i > Len(points) THEN result
    ELSE
      LET p == points[i]
          inside == edge \notin get_side(p, rect)
          prev_inside == edge \notin get_side(prev, rect)
          cut == IF inside # prev_inside
                 THEN Append(result, intersect_edge(prev, p, edge, rect)) ELSE result
      IN  ClipEdge(points, i + 1, p, edge, rect, IF inside THEN Append(cut, p) ELSE cut)

\* The `while edge <= 8` loop.
RECURSIVE ClipEdges(_, _, _)
ClipEdges(points, edge, rect) ==
    IF edge > 8 THEN points
    ELSE LET result == ClipEdge(points, 1, points[Len(points)], edge, rect, <<>>)
         IN  IF result = <<>> THEN result ELSE ClipEdges(result, edge * 2, rect)

ClipOutcome(ring, rect) ==
    LET points == ClipEdges(ring, 1, rect)
    IN  IF Len(points) >= 2 THEN Some(points) ELSE None

\* The sides of the ring, the closing one included, are horizontal, vertical
\* or diagonal.
ExactRing(ring) ==
    \A i \in 1..Len(ring) :
        LET a == ring[i]
            b == ring[(i % Len(ring)) + 1]
        IN  \/ a[1] = b[1]
            \/ a[2] = b[2]
            \/ a[1] - b[1] = a[2] - b[2]
            \/ a[1] - b[1] = b[2] - a[2]

Rings == {ring \in UNION {[1..n -> GridPoints] : n \in 1..MaxRing} : ExactRing(ring)}

InitClip ==
    /\ RestButClip
    /\ subject_polygon \in Rings
    /\ clip_rect \in ClipRects
    /\ clip_result = <<"idle">>

sutherland_hodgman_clip ==
    /\ clip_result = <<"idle">>
    /\ clip_result' = <<"returned", ClipOutcome(subject_polygon, clip_rect)>>
    /\ UNCHANGED <<subject_polygon, clip_rect, varsButClip>>

NextClip == sutherland_hodgman_clip

SpecClip == InitClip /\ [][NextClip /\ UNCHANGED <<varsRoute, varsMerge, varsZoom, varsTW>>]_vars

(***************************************************************************)
(* One clip job of the TileWriter taken on its own: the closure of         *)
(* add_to_tiles (tile ranges, fill_map, intersection) over lines and       *)
(* points that lie near the seams of the zoom-9 and zoom-10 tiles.         *)
(***************************************************************************)
MaxLine == 3

\* Inside a tile, on the seam of two zoom-9 tiles, on the edge of the world.
SeamPoints == {0, 150, 200, 450} \X {50, 200, 450}

FillZooms == {9, 10}

FillGeometries ==
    {[type |-> "Coord", coords |-> <<c>>] : c \in SeamPoints}
    \cup {[type |-> "Line", coords |-> l] :
            l \in UNION {[1..n -> SeamPoints] : n \in 1..MaxLine}}

\* add_to_tiles has been called on a writer that has captured no keys.
InitFill ==
    /\ RestButFill
    /\ \E z \in FillZooms : \E g \in FillGeometries : \E force \in BOOLEAN :
          fill_job = [zoom_level |-> z,
                      map_geom_object |-> [id |-> 1, kind |-> [tag |-> "Route"]],
                      map_geometry |-> g,
                      can_create_new_tiles |-> force,
                      tile_keys_cache |-> {}]
    /\ fill_records = <<"idle">>

\* The closure runs to its end.
RunClipJob ==
    /\ fill_records = <<"idle">>
    /\ fill_records' = <<"sent", JobRecords(fill_job)>>
    /\ UNCHANGED <<fill_job, varsButFill>>

NextFill == RunClipJob

SpecFill == InitFill /\ [][NextFill /\ UNCHANGED <<varsRoute, varsMerge, varsZoom, varsTW>>]_vars

(***************************************************************************)
(* The orders of WayInfo (osm/src/map/mod.rs): Ord is written by hand,     *)
(* PartialEq and PartialOrd are derived with name_en left out.             *)
(***************************************************************************)
OrderLayers == {0, 1}

OrderWayInfos ==
    [line_kind : LineKinds, layer : OrderLayers,
     layer_kind : {"Tunnel", "None", "Bridge"}, name_en : {"none", "Main"}]

IntCmp(x, y) == IF x < y THEN "Less" ELSE IF x > y THEN "Greater" ELSE "Equal"

\* The comparison with the layer ahead of the layer kind.
cmp_layer_first(a, b) ==
    IF IntCmp(a.layer, b.layer) = "Equal"
    THEN IF IntCmp(LayerKindRank(a.layer_kind), LayerKindRank(b.layer_kind)) = "Equal"
         THEN IntCmp(get_layer(a.line_kind), get_layer(b.line_kind))
         ELSE IntCmp(LayerKindRank(a.layer_kind), LayerKindRank(b.layer_kind))
    ELSE IntCmp(a.layer, b.layer)

\* impl Ord for WayInfo
cmp(a, b) ==
    IF IntCmp(LayerKindRank(a.layer_kind), LayerKindRank(b.layer_kind)) = "Equal"
    THEN IF IntCmp(a.layer, b.layer) = "Equal"
         THEN IntCmp(get_layer(a.line_kind), get_layer(b.line_kind))
         ELSE IntCmp(a.layer, b.layer)
    ELSE IntCmp(LayerKindRank(a.layer_kind), LayerKindRank(b.layer_kind))

\* The derived order of LineKind: Highway before Railway, the highway kinds
\* in the order they are declared in.
LineKindIndex(line_kind) ==
    CASE line_kind = "Motorway" -> 0
      [] line_kind = "Trunk" -> 1
      [] line_kind = "Primary" -> 2
      [] line_kind = "Secondary" -> 3
      [] line_kind = "Tertiary" -> 4
      [] line_kind = "Unclassified" -> 5
      [] line_kind = "Residential" -> 6
      [] line_kind = "MotorwayLink" -> 7
      [] line_kind = "TrunkLink" -> 8
      [] line_kind = "PrimaryLink" -> 9
      [] line_kind = "SecondaryLink" -> 10
      [] line_kind = "TertiaryLink" -> 11
      [] line_kind = "Service" -> 12
      [] line_kind = "Footway" -> 13
      [] line_kind = "Rail" -> 14

\* #[derivative(PartialOrd)] on WayInfo: the fields in the order they are
\* declared in, name_en ignored.
partial_cmp(a, b) ==
    IF IntCmp(LineKindIndex(a.line_kind), LineKindIndex(b.line_kind)) = "Equal"
    THEN IF IntCmp(a.layer, b.layer) = "Equal"
         THEN IntCmp(LayerKindRank(a.layer_kind), LayerKindRank(b.layer_kind))
         ELSE IntCmp(a.layer, b.layer)
    ELSE IntCmp(LineKindIndex(a.line_kind), LineKindIndex(b.line_kind))

\* #[derivative(PartialEq)] on WayInfo, name_en ignored
eq(a, b) ==
    /\ a.line_kind = b.line_kind
    /\ a.layer = b.layer
    /\ a.layer_kind = b.layer_kind

InitOrder ==
    /\ RestButOrder
    /\ way_a \in OrderWayInfos
    /\ way_b \in OrderWayInfos
    /\ compared = <<>>

Compare ==
    /\ compared = <<>>
    /\ compared' = <<[cmp |-> cmp(way_a, way_b),
                      partial_cmp |-> partial_cmp(way_a, way_b),
                      eq |-> eq(way_a, way_b)]>>
    /\ UNCHANGED <<way_a, way_b, varsButOrder>>

NextOrder == Compare

SpecOrder == InitOrder /\ [][NextOrder /\ UNCHANGED <<varsRoute, varsMerge, varsZoom, varsTW>>]_vars

(***************************************************************************)
(* OsmReader (osm_tool/src/reader/mod.rs): the pre-scan of the relations   *)
(* and data(), over a file whose blobs may fail to be read or decoded.     *)
(***************************************************************************)
MaxBlobs == 2

\* What a blob holds once decoded and filtered by the boundary: nodes, else
\* ways and no nodes, else neither.
BlobContents == {"nodes", "ways", "relations"}

\* Where reading a blob fails: its header cannot be read or decoded, its body
\* cannot be read, Blob::decode fails, or the decompression or
\* PrimitiveBlock::decode fails.
BlobFaults == {"ok", "header", "read", "decode", "extract"}

BlobFiles ==
    UNION {[1..n -> [content : BlobContents, fault : BlobFaults]] : n \in 0..MaxBlobs}

\* parse_blob_header on a blob that is there
parse_blob_header(blob) == IF blob.fault = "header" THEN "Err" ELSE "Ok"

\* read_blob on a blob that is there
read_blob(blob) ==
    IF parse_blob_header(blob) = "Err" THEN "Err"
    ELSE IF blob.fault \in {"read", "decode"} THEN "Err"
    ELSE "Ok"

blob_to_osm_blob_data(blob) == IF blob.fault = "extract" THEN "None" ELSE "Some"

\* parse_blob on a blob that is there
parse_blob(blob) ==
    IF read_blob(blob) = "Err" THEN "SomeErr"
    ELSE IF blob_to_osm_blob_data(blob) = "None" THEN "None"
    ELSE "SomeOk"

InitReader ==
    /\ RestButReader
    /\ blob_file \in BlobFiles
    /\ reader_pc = "headers"
    /\ reader_pos = 1
    /\ blocks_sizes = 0
    /\ last_block_index = 0
    /\ ways_ids = {}
    /\ decode_jobs = {}
    /\ blob_chan = <<>>
    /\ blob_buckets = [nodes |-> <<>>, ways |-> <<>>, relations |-> <<>>]

\* extract_ways_id_from_relations, one turn of its first loop: the headers
\* are walked forward, the bodies skipped.
ScanHeaders ==
    /\ reader_pc = "headers"
    /\ IF reader_pos > Len(blob_file) \/ parse_blob_header(blob_file[reader_pos]) = "Err"
       THEN /\ reader_pc' = "relations"
            /\ last_block_index' = blocks_sizes
            /\ UNCHANGED <<reader_pos, blocks_sizes>>
       ELSE /\ blocks_sizes' = blocks_sizes + 1
            /\ reader_pos' = reader_pos + 1
            /\ UNCHANGED <<reader_pc, last_block_index>>
    /\ UNCHANGED <<blob_file, ways_ids, decode_jobs, blob_chan, blob_buckets, varsButReader>>

\* extract_ways_id_from_relations, one turn of its second loop: the blobs
\* are parsed from the last one backwards, parse_blob().unwrap().ok().unwrap().
ScanRelations ==
    /\ reader_pc = "relations"
    /\ IF last_block_index = 0
       THEN /\ reader_pc' = "read"
            /\ reader_pos' = 1
            /\ UNCHANGED <<last_block_index, ways_ids>>
       ELSE IF parse_blob(blob_file[last_block_index]) # "SomeOk"
       THEN /\ reader_pc' = "panicked"
            /\ UNCHANGED <<reader_pos, last_block_index, ways_ids>>
       ELSE IF blob_file[last_block_index].content # "relations"
       THEN /\ reader_pc' = "read"
            /\ reader_pos' = 1
            /\ last_block_index' = last_block_index - 1
            /\ UNCHANGED ways_ids
       ELSE /\ ways_ids' = ways_ids \cup {last_block_index}
            /\ last_block_index' = last_block_index - 1
            /\ UNCHANGED <<reader_pc, reader_pos>>
    /\ UNCHANGED <<blob_file, blocks_sizes, decode_jobs, blob_chan, blob_buckets, varsButReader>>

\* data(), one turn of its while loop: read_blob, expect, execute.
DataRead ==
    /\ reader_pc = "read"
    /\ IF reader_pos > Len(blob_file)
       THEN /\ reader_pc' = "drain"
            /\ UNCHANGED <<reader_pos, decode_jobs>>
       ELSE IF read_blob(blob_file[reader_pos]) = "Err"
       THEN /\ reader_pc' = "panicked"
            /\ UNCHANGED <<reader_pos, decode_jobs>>
       ELSE /\ decode_jobs' = decode_jobs \cup {reader_pos}
            /\ reader_pos' = reader_pos + 1
            /\ UNCHANGED reader_pc
    /\ UNCHANGED <<blob_file, blocks_sizes, last_block_index, ways_ids, blob_chan,
                   blob_buckets, varsButReader>>

\* The closure data() hands to the pool, run by a pool thread.
DecodeJob(i) ==
    /\ reader_pc \in {"read", "drain"}
    /\ i \in decode_jobs
    /\ decode_jobs' = decode_jobs \ {i}
    /\ blob_chan' = IF blob_to_osm_blob_data(blob_file[i]) = "Some"
                    THEN Append(blob_chan, i)
                    ELSE blob_chan
    /\ UNCHANGED <<blob_file, reader_pc, reader_pos, blocks_sizes, last_block_index,
                   ways_ids, blob_buckets, varsButReader>>

\* data(), one turn of its for loop over the receiver: it ends when the
\* channel is empty and every sender is dropped.
DataDrain ==
    /\ reader_pc = "drain"
    /\ IF blob_chan # <<>>
       THEN /\ blob_buckets' =
                [blob_buckets EXCEPT ![blob_file[Head(blob_chan)].content] =
                    Append(@, Head(blob_chan))]
            /\ blob_chan' = Tail(blob_chan)
            /\ UNCHANGED reader_pc
       ELSE /\ decode_jobs = {}
            /\ reader_pc' = "done"
            /\ UNCHANGED <<blob_chan, blob_buckets>>
    /\ UNCHANGED <<blob_file, reader_pos, blocks_sizes, last_block_index, ways_ids,
                   decode_jobs, varsButReader>>

NextReader ==
    \/ ScanHeaders
    \/ ScanRelations
    \/ DataRead
    \/ \E i \in 1..MaxBlobs : DecodeJob(i)
    \/ DataDrain

SpecReader == InitReader /\ [][NextReader /\ UNCHANGED <<varsRoute, varsMerge, varsZoom, varsTW>>]_vars

(***************************************************************************)
(* The batch pipeline (osm_tool/src/main.rs, pbf_processor.rs,             *)
(* reader/mod.rs, way_store.rs, polygon_store.rs, tile_writer.rs): the     *)
(* main thread from data() to save_to_file, the jobs of the pools and the  *)
(* two producer threads.  A worker either sends its output or panics; a    *)
(* panic unwinds its thread and drops its sender.                          *)
(***************************************************************************)
MaxPipeBlobs == 2

PipeFiles == UNION {[1..n -> {"ways", "relations"}] : n \in 0..MaxPipeBlobs}

StoreThreads == {"process_forests", "process_ways"}

\* The geometries handed to add_to_tiles: one of each blob, one of each
\* producer thread.
ClipIds == ({"blob"} \X (1..MaxPipeBlobs)) \cup ({"store"} \X StoreThreads)

\* A receiver taken for disconnected as soon as nothing is queued.
DisconnectedWhenEmpty(chan, closures) == chan = <<>>

\* A receiver whose senders are never all dropped.
DisconnectedNever(chan, closures) == FALSE

\* for x in rx ends when nothing is queued and every Sender is dropped: the
\* main thread has dropped its own by then, the clones are owned by the
\* closures not yet finished.
Disconnected(chan, closures) == chan = <<>> /\ closures = {}

InitPipe ==
    /\ RestButPipe
    /\ pipe_file \in PipeFiles
    /\ pipe_pc = "read"
    /\ pipe_pos = 1
    /\ pipe_decode_jobs = {}
    /\ pipe_blob_chan = <<>>
    /\ way_blobs = <<>>
    /\ rels_blobs = <<>>
    /\ item_jobs = {}
    /\ item_chan = <<>>
    /\ store_threads = {}
    /\ store_chan = <<>>
    /\ clip_jobs = {}
    /\ clip_chan = <<>>
    /\ stored = {}
    /\ panicked = {}

\* data(): one blob read and handed to the pool, or the end of the file and
\* drop(tx).
PipeRead ==
    /\ pipe_pc = "read"
    /\ IF pipe_pos <= Len(pipe_file)
       THEN /\ pipe_decode_jobs' = pipe_decode_jobs \cup {pipe_pos}
            /\ pipe_pos' = pipe_pos + 1
            /\ UNCHANGED pipe_pc
       ELSE /\ pipe_pc' = "collect"
            /\ UNCHANGED <<pipe_pos, pipe_decode_jobs>>
    /\ UNCHANGED <<pipe_file, pipe_blob_chan, way_blobs, rels_blobs, item_jobs, item_chan,
                   store_threads, store_chan, clip_jobs, clip_chan, stored, panicked,
                   varsButPipe>>

\* The closure of data(): blob_to_osm_blob_data and send.
PipeDecode(i) ==
    /\ i \in pipe_decode_jobs
    /\ pipe_decode_jobs' = pipe_decode_jobs \ {i}
    /\ \/ /\ pipe_blob_chan' = Append(pipe_blob_chan, i)
          /\ UNCHANGED panicked
       \/ /\ panicked' = panicked \cup {<<"decode", i>>}
          /\ UNCHANGED pipe_blob_chan
    /\ UNCHANGED <<pipe_file, pipe_pc, pipe_pos, way_blobs, rels_blobs, item_jobs,
                   item_chan, store_threads, store_chan, clip_jobs, clip_chan, stored,
                   varsButPipe>>

\* data(): one turn of the loop over the receiver, the blob put in its
\* bucket; process_pbf goes on when the loop ends.
PipeCollect ==
    /\ pipe_pc = "collect"
    /\ IF Disconnected(pipe_blob_chan, pipe_decode_jobs)
       THEN /\ pipe_pc' = "ways_submit"
            /\ UNCHANGED <<pipe_blob_chan, way_blobs, rels_blobs>>
       ELSE /\ pipe_blob_chan # <<>>
            /\ pipe_blob_chan' = Tail(pipe_blob_chan)
            /\ IF pipe_file[Head(pipe_blob_chan)] = "ways"
               THEN /\ way_blobs' = Append(way_blobs, Head(pipe_blob_chan))
                    /\ UNCHANGED rels_blobs
               ELSE /\ rels_blobs' = Append(rels_blobs, Head(pipe_blob_chan))
                    /\ UNCHANGED way_blobs
            /\ UNCHANGED pipe_pc
    /\ UNCHANGED <<pipe_file, pipe_pos, pipe_decode_jobs, item_jobs, item_chan,
                   store_threads, store_chan, clip_jobs, clip_chan, stored, panicked,
                   varsButPipe>>

\* process_pbf: one way blob handed to the pool with a clone of tx, or the
\* end of the loop and drop(tx).
WaysSubmit ==
    /\ pipe_pc = "ways_submit"
    /\ IF way_blobs # <<>>
       THEN /\ item_jobs' = item_jobs \cup {Head(way_blobs)}
            /\ way_blobs' = Tail(way_blobs)
            /\ UNCHANGED pipe_pc
       ELSE /\ pipe_pc' = "ways_drain"
            /\ UNCHANGED <<item_jobs, way_blobs>>
    /\ UNCHANGED <<pipe_file, pipe_pos, pipe_decode_jobs, pipe_blob_chan, rels_blobs,
                   item_chan, store_threads, store_chan, clip_jobs, clip_chan, stored,
                   panicked, varsButPipe>>

\* The closure of process_pbf around read_ways or read_relations.
ReadJob(i) ==
    /\ i \in item_jobs
    /\ item_jobs' = item_jobs \ {i}
    /\ \/ /\ item_chan' = Append(item_chan, i)
          /\ UNCHANGED panicked
       \/ /\ panicked' = panicked \cup {<<"read", i>>}
          /\ UNCHANGED item_chan
    /\ UNCHANGED <<pipe_file, pipe_pc, pipe_pos, pipe_decode_jobs, pipe_blob_chan,
                   way_blobs, rels_blobs, store_threads, store_chan, clip_jobs, clip_chan,
                   stored, varsButPipe>>

\* process_pbf: one turn of the loop over the ways' receiver;
\* handle_tile_item ends in TileWriter::add_to_tiles, which hands a clip job
\* to the pool of the TileWriter.
WaysDrain ==
    /\ pipe_pc = "ways_drain"
    /\ IF Disconnected(item_chan, item_jobs)
       THEN /\ pipe_pc' = "rels_submit"
            /\ UNCHANGED <<item_chan, clip_jobs>>
       ELSE /\ item_chan # <<>>
            /\ item_chan' = Tail(item_chan)
            /\ clip_jobs' = clip_jobs \cup {<<"blob", Head(item_chan)>>}
            /\ UNCHANGED pipe_pc
    /\ UNCHANGED <<pipe_file, pipe_pos, pipe_decode_jobs, pipe_blob_chan, way_blobs,
                   rels_blobs, item_jobs, store_threads, store_chan, clip_chan, stored,
                   panicked, varsButPipe>>

\* process_pbf: one relation blob handed to the pool, or the end of the loop
\* and drop(tx).
RelsSubmit ==
    /\ pipe_pc = "rels_submit"
    /\ IF rels_blobs # <<>>
       THEN /\ item_jobs' = item_jobs \cup {Head(rels_blobs)}
            /\ rels_blobs' = Tail(rels_blobs)
            /\ UNCHANGED pipe_pc
       ELSE /\ pipe_pc' = "rels_drain"
            /\ UNCHANGED <<item_jobs, rels_blobs>>
    /\ UNCHANGED <<pipe_file, pipe_pos, pipe_decode_jobs, pipe_blob_chan, way_blobs,
                   item_chan, store_threads, store_chan, clip_jobs, clip_chan, stored,
                   panicked, varsButPipe>>

\* process_pbf: one turn of the loop over the relations' receiver.
RelsDrain ==
    /\ pipe_pc = "rels_drain"
    /\ IF Disconnected(item_chan, item_jobs)
       THEN /\ pipe_pc' = "stores_spawn"
            /\ UNCHANGED <<item_chan, clip_jobs>>
       ELSE /\ item_chan # <<>>
            /\ item_chan' = Tail(item_chan)
            /\ clip_jobs' = clip_jobs \cup {<<"blob", Head(item_chan)>>}
            /\ UNCHANGED pipe_pc
    /\ UNCHANGED <<pipe_file, pipe_pos, pipe_decode_jobs, pipe_blob_chan, way_blobs,
                   rels_blobs, item_jobs, store_threads, store_chan, clip_chan, stored,
                   panicked, varsButPipe>>

\* process_ways_and_forest up to its loop: process_forests_async and
\* process_ways_async spawn a thread each, tx is moved into the second.
process_ways_and_forest ==
    /\ pipe_pc = "stores_spawn"
    /\ store_threads' = StoreThreads
    /\ pipe_pc' = "stores_drain"
    /\ UNCHANGED <<pipe_file, pipe_pos, pipe_decode_jobs, pipe_blob_chan, way_blobs,
                   rels_blobs, item_jobs, item_chan, store_chan, clip_jobs, clip_chan,
                   stored, panicked, varsButPipe>>

\* The thread of PolygonStore::process_forests or WayStore::process_ways.
StoreThread(t) ==
    /\ t \in store_threads
    /\ store_threads' = store_threads \ {t}
    /\ \/ /\ store_chan' = Append(store_chan, t)
          /\ UNCHANGED panicked
       \/ /\ panicked' = panicked \cup {<<"store", t>>}
          /\ UNCHANGED store_chan
    /\ UNCHANGED <<pipe_file, pipe_pc, pipe_pos, pipe_decode_jobs, pipe_blob_chan,
                   way_blobs, rels_blobs, item_jobs, item_chan, clip_jobs, clip_chan,
                   stored, varsButPipe>>

\* process_ways_and_forest: one turn of its loop, add_to_tiles; after the
\* loop main goes on to save_to_disk, save_to_file, flush_to_collections,
\* which sets sender to None.
StoresDrain ==
    /\ pipe_pc = "stores_drain"
    /\ IF Disconnected(store_chan, store_threads)
       THEN /\ pipe_pc' = "flush"
            /\ UNCHANGED <<store_chan, clip_jobs>>
       ELSE /\ store_chan # <<>>
            /\ store_chan' = Tail(store_chan)
            /\ clip_jobs' = clip_jobs \cup {<<"store", Head(store_chan)>>}
            /\ UNCHANGED pipe_pc
    /\ UNCHANGED <<pipe_file, pipe_pos, pipe_decode_jobs, pipe_blob_chan, way_blobs,
                   rels_blobs, item_jobs, item_chan, store_threads, clip_chan, stored,
                   panicked, varsButPipe>>

\* The closure of TileWriter::add_to_tiles: bounding_rect().unwrap(),
\* fill_map, send.
ClipJob(id) ==
    /\ id \in clip_jobs
    /\ clip_jobs' = clip_jobs \ {id}
    /\ \/ /\ clip_chan' = Append(clip_chan, id)
          /\ UNCHANGED panicked
       \/ /\ panicked' = panicked \cup {<<"clip", id>>}
          /\ UNCHANGED clip_chan
    /\ UNCHANGED <<pipe_file, pipe_pc, pipe_pos, pipe_decode_jobs, pipe_blob_chan,
                   way_blobs, rels_blobs, item_jobs, item_chan, store_threads, store_chan,
                   stored, varsButPipe>>

\* flush_to_collections: one turn of the loop over the receiver of the
\* TileWriter.
PipeFlush ==
    /\ pipe_pc = "flush"
    /\ IF Disconnected(clip_chan, clip_jobs)
       THEN /\ pipe_pc' = "join"
            /\ UNCHANGED <<clip_chan, stored>>
       ELSE /\ clip_chan # <<>>
            /\ clip_chan' = Tail(clip_chan)
            /\ stored' = stored \cup {Head(clip_chan)}
            /\ UNCHANGED pipe_pc
    /\ UNCHANGED <<pipe_file, pipe_pos, pipe_decode_jobs, pipe_blob_chan, way_blobs,
                   rels_blobs, item_jobs, item_chan, store_threads, store_chan, clip_jobs,
                   panicked, varsButPipe>>

\* flush_to_collections from thread_pool.join() on, then save_to_file
\* writes the tiles; join returns once no job is queued or active.
PipeSave ==
    /\ pipe_pc = "join"
    /\ clip_jobs = {}
    /\ pipe_pc' = "saved"
    /\ UNCHANGED <<pipe_file, pipe_pos, pipe_decode_jobs, pipe_blob_chan, way_blobs,
                   rels_blobs, item_jobs, item_chan, store_threads, store_chan, clip_jobs,
                   clip_chan, stored, panicked, varsButPipe>>

PipeMain ==
    \/ PipeRead
    \/ PipeCollect
    \/ WaysSubmit
    \/ WaysDrain
    \/ RelsSubmit
    \/ RelsDrain
    \/ process_ways_and_forest
    \/ StoresDrain
    \/ PipeFlush
    \/ PipeSave

PipeWorkers ==
    \/ \E i \in 1..MaxPipeBlobs : PipeDecode(i)
    \/ \E i \in 1..MaxPipeBlobs : ReadJob(i)
    \/ \E t \in StoreThreads : StoreThread(t)
    \/ \E id \in ClipIds : ClipJob(id)

NextPipe == PipeMain \/ PipeWorkers

SpecPipe == InitPipe /\ [][NextPipe /\ UNCHANGED <<varsRoute, varsMerge, varsZoom, varsTW>>]_vars

\* The main thread and every worker thread get to run.
PipeFairness ==
    /\ WF_vars(PipeMain /\ UNCHANGED <<varsRoute, varsMerge, varsZoom, varsTW>>)
    /\ WF_vars(PipeWorkers /\ UNCHANGED <<varsRoute, varsMerge, varsZoom, varsTW>>)

SpecPipeLive == SpecPipe /\ PipeFairness

(***************************************************************************)
(* The dense nodes of a blob (osm_tool/src/reader/mod.rs,                  *)
(* blob_to_osm_blob_data): ids and coordinates are delta-coded, the tags   *)
(* are one packed stream, the four are zipped and the nodes outside the    *)
(* boundary dropped.  Coordinates are in units of 1e-9 degree.             *)
(***************************************************************************)
MaxDense == 2

DenseDeltas == {1, 3}

granularity == 100

DenseBoundary == [min |-> <<0, 0>>, max |-> <<200, 200>>]

DenseBlocks ==
    UNION {[id : [1..n -> {1, 2}], lat : [1..n -> DenseDeltas], lon : [1..n -> DenseDeltas],
            keys_vals : PackedStreams] : n \in 0..MaxDense}

\* Delta: the running sums of the stream
RECURSIVE delta(_)
delta(s) ==
    IF s = <<>> THEN <<>>
    ELSE LET front == delta(SubSeq(s, 1, Len(s) - 1))
         IN  IF front = <<>> THEN <<s[1]>>
             ELSE Append(front, front[Len(front)] + s[Len(s)])

\* Every map a TagIterator yields before its first None.
RECURSIVE TagsCollect(_, _)
TagsCollect(iter, map) ==
    LET r == NextLoop(iter, map)
    IN  IF r.item = None THEN <<>>
        ELSE <<r.item[1]>> \o TagsCollect(r.iter, r.tags)

\* izip! of four iterators: it ends with the shortest.
izip(a, b, c, d) ==
    [k \in 1..Min2(Min2(Len(a), Len(b)), Min2(Len(c), Len(d))) |-> <<a[k], b[k], c[k], d[k]>>]

\* boundary.intersects(&coord)
Intersects(rect, coord) ==
    /\ rect.min[1] <= coord[1] /\ coord[1] <= rect.max[1]
    /\ rect.min[2] <= coord[2] /\ coord[2] <= rect.max[2]

RECURSIVE FilterNodes(_, _)
FilterNodes(nodes, rect) ==
    IF nodes = <<>> THEN <<>>
    ELSE IF Intersects(rect, Head(nodes).coord)
    THEN <<Head(nodes)>> \o FilterNodes(Tail(nodes), rect)
    ELSE FilterNodes(Tail(nodes), rect)

\* The dense branch of blob_to_osm_blob_data, with no offsets given.
DecodeDense(dn, boundary) ==
    LET zipped == izip(delta(dn.id), delta(dn.lat), delta(dn.lon),
                       TagsCollect(dn.keys_vals, <<>>))
        mapped == [k \in 1..Len(zipped) |->
                      [id |-> zipped[k][1],
                       coord |-> <<zipped[k][3] * granularity, zipped[k][2] * granularity>>,
                       tags |-> zipped[k][4]]]
    IN  FilterNodes(mapped, boundary)

InitDense ==
    /\ RestButDense
    /\ dense \in DenseBlocks
    /\ dense_nodes = <<"idle">>

blob_to_osm_blob_data_dense ==
    /\ dense_nodes = <<"idle">>
    /\ dense_nodes' = <<"decoded", DecodeDense(dense, DenseBoundary)>>
    /\ UNCHANGED <<dense, varsButDense>>

NextDense == blob_to_osm_blob_data_dense

SpecDense == InitDense /\ [][NextDense /\ UNCHANGED <<varsRoute, varsMerge, varsZoom, varsTW>>]_vars

(***************************************************************************)
(* The phases of PbfProcessor::process_pbf (osm_tool/src/pbf_processor.rs  *)
(* 87-141) after OsmReader::data has returned its three buckets: the node  *)
(* table and the way-ref table, the jobs of the pool that read them and    *)
(* the channel the jobs send into.  The pool has six workers and never     *)
(* holds more jobs than that here.                                         *)
(***************************************************************************)
MaxPhaseBlobs == 2

\* The i-th blob of each bucket: two nodes, one way over them, one relation.
NodeBlob(i) == [id |-> i, nodes |-> {i, i + 1}]

WayBlob(i) == [id |-> i, ways |-> {[id |-> 10 + i, refs |-> <<i, i + 1>>]}]

RelsBlob(i) == [id |-> i, members |-> {10 + i}]

Bucket(Blob(_), n) == [i \in 1..n |-> Blob(i)]

PhaseInputs ==
    {[node_blobs |-> Bucket(NodeBlob, n), way_blobs |-> Bucket(WayBlob, w),
      rels_blobs |-> Bucket(RelsBlob, r), used_ways_ids |-> used] :
        n \in 0..MaxPhaseBlobs, w \in 0..MaxPhaseBlobs, r \in 0..MaxPhaseBlobs,
        used \in {{}, {11}, {10 + i : i \in 1..MaxPhaseBlobs}}}

InitPhases ==
    /\ RestButPhases
    /\ ph_input \in PhaseInputs
    /\ ph_pc = "nodes"
    /\ ph_todo = ph_input.node_blobs
    /\ nodes_table = {}
    /\ ways_table = <<>>
    /\ ph_jobs = {}
    /\ ph_running = {}
    /\ ph_chan = <<>>
    /\ ph_started = {}

\* The ways of a blob that process_pbf puts into the way-ref table
\* (pbf_processor.rs 106-110).
RECURSIVE InsertUsed(_, _, _)
InsertUsed(table, blob_ways, used) ==
    IF blob_ways = {} THEN table
    ELSE LET way == CHOOSE w \in blob_ways : TRUE
         IN  InsertUsed(IF way.id \in used THEN MapInsert(table, way.id, way.refs)
                        ELSE table,
                        blob_ways \ {way}, used)

\* process_pbf: one turn of the loop over node_blobs, read_nodes inserting
\* every node of the blob, or a panic of from_tag that ends the process; after
\* the loop Arc::new(nodes) and the channel of the way jobs.
ReadNodes ==
    /\ ph_pc = "nodes"
    /\ IF ph_todo # <<>>
       THEN \/ /\ nodes_table' = nodes_table \cup Head(ph_todo).nodes
               /\ ph_todo' = Tail(ph_todo)
               /\ UNCHANGED ph_pc
            \/ /\ ph_pc' = "panicked"
               /\ UNCHANGED <<nodes_table, ph_todo>>
       ELSE /\ ph_pc' = "ways_submit"
            /\ ph_todo' = ph_input.way_blobs
            /\ UNCHANGED nodes_table
    /\ UNCHANGED <<ph_input, ways_table, ph_jobs, ph_running, ph_chan, ph_started,
                   varsButPhases>>

\* process_pbf: one turn of the loop over way_blobs, the used ways of the
\* blob put into the way-ref table and a read_ways job handed to the pool, or
\* the end of the loop and drop(tx).
SubmitWays ==
    /\ ph_pc = "ways_submit"
    /\ IF ph_todo # <<>>
       THEN /\ ways_table' = InsertUsed(ways_table, Head(ph_todo).ways,
                                        ph_input.used_ways_ids)
            /\ ph_jobs' = ph_jobs \cup {[kind |-> "read_ways", blob |-> Head(ph_todo).id]}
            /\ ph_todo' = Tail(ph_todo)
            /\ UNCHANGED ph_pc
       ELSE /\ ph_pc' = "ways_drain"
            /\ UNCHANGED <<ways_table, ph_jobs, ph_todo>>
    /\ UNCHANGED <<ph_input, nodes_table, ph_running, ph_chan, ph_started, varsButPhases>>

\* A worker of the pool takes a job; what the two tables hold and which
\* way jobs have output outstanding at that moment is kept with it.
JobStart(job) ==
    /\ job \in ph_jobs
    /\ ph_jobs' = ph_jobs \ {job}
    /\ ph_running' = ph_running \cup {job}
    /\ ph_started' = ph_started \cup
          {[job |-> job, nodes |-> nodes_table, ways |-> ways_table,
            outstanding |-> {j \in ph_jobs \cup ph_running \cup Range(ph_chan) :
                               j.kind = "read_ways" /\ j # job}]}
    /\ UNCHANGED <<ph_input, ph_pc, ph_todo, nodes_table, ways_table, ph_chan,
                   varsButPhases>>

\* The closure around read_ways or read_relations ends: its output is in the
\* channel and its sender dropped, or it has panicked.
JobEnd(job) ==
    /\ job \in ph_running
    /\ ph_running' = ph_running \ {job}
    /\ \/ ph_chan' = Append(ph_chan, job)
       \/ UNCHANGED ph_chan
    /\ UNCHANGED <<ph_input, ph_pc, ph_todo, nodes_table, ways_table, ph_jobs,
                   ph_started, varsButPhases>>

\* process_pbf: one turn of the loop over the receiver of the way jobs; after
\* the loop Arc::new(ways) and the channel of the relation jobs.
DrainWays ==
    /\ ph_pc = "ways_drain"
    /\ IF Disconnected(ph_chan, ph_jobs \cup ph_running)
       THEN /\ ph_pc' = "rels_submit"
            /\ ph_todo' = ph_input.rels_blobs
            /\ UNCHANGED ph_chan
       ELSE /\ ph_chan # <<>>
            /\ ph_chan' = Tail(ph_chan)
            /\ UNCHANGED <<ph_pc, ph_todo>>
    /\ UNCHANGED <<ph_input, nodes_table, ways_table, ph_jobs, ph_running, ph_started,
                   varsButPhases>>

\* process_pbf: one turn of the loop over rels_blobs, a read_relations job
\* handed to the pool, or the end of the loop and drop(tx).
SubmitRels ==
    /\ ph_pc = "rels_submit"
    /\ IF ph_todo # <<>>
       THEN /\ ph_jobs' = ph_jobs \cup {[kind |-> "read_relations", blob |-> Head(ph_todo).id]}
            /\ ph_todo' = Tail(ph_todo)
            /\ UNCHANGED ph_pc
       ELSE /\ ph_pc' = "rels_drain"
            /\ UNCHANGED <<ph_jobs, ph_todo>>
    /\ UNCHANGED <<ph_input, nodes_table, ways_table, ph_running, ph_chan, ph_started,
                   varsButPhases>>

\* process_pbf: one turn of the loop over the receiver of the relation jobs.
DrainRels ==
    /\ ph_pc = "rels_drain"
    /\ IF Disconnected(ph_chan, ph_jobs \cup ph_running)
       THEN /\ ph_pc' = "done"
            /\ UNCHANGED ph_chan
       ELSE /\ ph_chan # <<>>
            /\ ph_chan' = Tail(ph_chan)
            /\ UNCHANGED ph_pc
    /\ UNCHANGED <<ph_input, ph_todo, nodes_table, ways_table, ph_jobs, ph_running,
                   ph_started, varsButPhases>>

PhaseJobs ==
    {[kind |-> k, blob |-> i] : k \in {"read_ways", "read_relations"}, i \in 1..MaxPhaseBlobs}

NextPhases ==
    \/ ReadNodes
    \/ SubmitWays
    \/ \E job \in PhaseJobs : JobStart(job)
    \/ \E job \in PhaseJobs : JobEnd(job)
    \/ DrainWays
    \/ SubmitRels
    \/ DrainRels

SpecPhases == InitPhases /\ [][NextPhases /\ UNCHANGED <<varsRoute, varsMerge, varsZoom, varsTW>>]_vars

(***************************************************************************)
(* OsmReader::extract_ways_id_from_relations (osm_tool/src/reader/mod.rs   *)
(* 190-250) over the bytes of a file: every blob is 4 bytes of length, its *)
(* header and its body, and the input has a position.                      *)
(***************************************************************************)
MaxScanBlobs == 3

\* A string table as the TagFilter indexes it, from 0.
StringTable(strs) == [i \in 0..(Len(strs) - 1) |-> strs[i + 1]]

\* The head of PbfProcessor::RELATION_TAG.
relation_tags ==
    <<[k |-> "water", v |-> None], [k |-> "natural", v |-> Some("wood")]>>

\* The blobs of the files: one of nodes, one of ways, and three of one
\* relation each: natural=wood with the members way 7, node 8, way 10;
\* water=x in a table that holds "water" twice, with the member way 20;
\* natural=x with the member way 30.
ScanBlobs ==
    {[header_len |-> 2, datasize |-> 3, nodes |-> 1, ways |-> 0,
      string_table |-> StringTable(<<>>), relations |-> <<>>],
     [header_len |-> 1, datasize |-> 2, nodes |-> 0, ways |-> 1,
      string_table |-> StringTable(<<>>), relations |-> <<>>],
     [header_len |-> 2, datasize |-> 5, nodes |-> 0, ways |-> 0,
      string_table |-> StringTable(<<"", "natural", "wood">>),
      relations |-> <<[keys |-> <<1>>, vals |-> <<2>>, types |-> <<1, 0, 1>>,
                       roles_sid |-> <<0, 0, 0>>, memids |-> <<7, 1, 2>>]>>],
     [header_len |-> 3, datasize |-> 4, nodes |-> 0, ways |-> 0,
      string_table |-> StringTable(<<"water", "x", "water">>),
      relations |-> <<[keys |-> <<0>>, vals |-> <<1>>, types |-> <<1>>,
                       roles_sid |-> <<0>>, memids |-> <<20>>]>>],
     [header_len |-> 1, datasize |-> 1, nodes |-> 0, ways |-> 0,
      string_table |-> StringTable(<<"natural", "x">>),
      relations |-> <<[keys |-> <<0>>, vals |-> <<1>>, types |-> <<1>>,
                       roles_sid |-> <<0>>, memids |-> <<30>>]>>]}

ScanFiles == UNION {[1..n -> ScanBlobs] : n \in 0..MaxScanBlobs}

\* OsmBlobHeader.total_size (reader/mod.rs 274-276)
TotalSize(blob) == 4 + blob.header_len + blob.datasize

\* The offset at which blob i of the file starts, and the end of the file.
RECURSIVE BlobStart(_, _)
BlobStart(file, i) ==
    IF i <= 1 THEN 0 ELSE BlobStart(file, i - 1) + 4 + file[i - 1].header_len
                          + file[i - 1].datasize

\* The blob the input is at the start of, 0 when it is at none.
BlobAt(file, pos) ==
    IF \E i \in 1..Len(file) : BlobStart(file, i) = pos
    THEN CHOOSE i \in 1..Len(file) : BlobStart(file, i) = pos
    ELSE 0

\* izip!(keys, vals).collect() into a HashMap: a later pair replaces an
\* earlier one of the same key.
RelationTags(rel) ==
    LET n == Min2(Len(rel.keys), Len(rel.vals))
    IN  [key \in {rel.keys[i] : i \in 1..n} |->
            rel.vals[CHOOSE i \in 1..n :
                        rel.keys[i] = key /\ \A j \in 1..n : rel.keys[j] = key => j <= i]]

\* OsmRelation::new (reader/mod.rs 114-132): the member ids are
\* delta-decoded over all members, then the members of type 1 are kept.
RECURSIVE WayMembers(_, _, _)
WayMembers(types, ids, i) ==
    IF i > Min2(Len(types), Len(ids)) THEN {}
    ELSE (IF types[i] = 1 THEN {ids[i]} ELSE {}) \cup WayMembers(types, ids, i + 1)

OsmRelationNew(rel) ==
    [tags |-> RelationTags(rel),
     ways |-> WayMembers(SubSeq(rel.types, 1, Min2(Len(rel.types), Len(rel.roles_sid))),
                         delta(rel.memids), 1)]

\* The ways of the relations of a blob that the TagFilter lets through
\* (reader/mod.rs 228-241).
FilteredWays(blob) ==
    LET flt == TagFilterNew(blob.string_table, relation_tags)
    IN  UNION {LET rel == OsmRelationNew(blob.relations[i])
               IN  IF \E key \in DOMAIN rel.tags : EntryReturns(flt, key, rel.tags[key])
                   THEN rel.ways ELSE {} : i \in DOMAIN blob.relations}

InitScan ==
    /\ RestButScan
    /\ sc_file \in ScanFiles
    /\ sc_pc = "headers"
    /\ sc_pos = 0
    /\ sc_blocks_sizes = <<>>
    /\ sc_total_size = 0
    /\ sc_last_block_index = -1
    /\ sc_ways_ids = {}
    /\ sc_seeks = <<>>
    /\ sc_parsed = <<>>

\* One turn of the first loop: parse_blob_header, the size pushed, the body
\* skipped; at the end of the file the loop ends.
ScanForward ==
    /\ sc_pc = "headers"
    /\ LET i == BlobAt(sc_file, sc_pos)
       IN  IF i = 0
           THEN /\ sc_pc' = "relations"
                /\ sc_last_block_index' = Len(sc_blocks_sizes) - 1
                /\ UNCHANGED <<sc_pos, sc_blocks_sizes, sc_total_size>>
           ELSE /\ sc_blocks_sizes' = Append(sc_blocks_sizes, TotalSize(sc_file[i]))
                /\ sc_total_size' = sc_total_size + TotalSize(sc_file[i])
                /\ sc_pos' = sc_pos + 4 + sc_file[i].header_len + sc_file[i].datasize
                /\ UNCHANGED <<sc_pc, sc_last_block_index>>
    /\ UNCHANGED <<sc_file, sc_ways_ids, sc_seeks, sc_parsed, varsButScan>>

\* One turn of the second loop: the seek to the block before, parse_blob,
\* the break on nodes or ways or the ids of the relations let through; when
\* the loop ends, the seek to 0 and the return.  A seek that lands off a blob
\* start has parse_blob fail and the unwrap panic.
ScanBackward ==
    /\ sc_pc = "relations"
    /\ IF sc_last_block_index < 0
       THEN /\ sc_pc' = "returned"
            /\ sc_pos' = 0
            /\ UNCHANGED <<sc_total_size, sc_last_block_index, sc_ways_ids, sc_seeks,
                           sc_parsed>>
       ELSE LET total == sc_total_size - sc_blocks_sizes[sc_last_block_index + 1]
                i == BlobAt(sc_file, total)
            IN  /\ sc_total_size' = total
                /\ sc_last_block_index' = sc_last_block_index - 1
                /\ sc_seeks' = Append(sc_seeks, total)
                /\ IF i = 0
                   THEN /\ sc_pc' = "panicked"
                        /\ sc_pos' = total
                        /\ UNCHANGED <<sc_ways_ids, sc_parsed>>
                   ELSE /\ sc_parsed' = Append(sc_parsed, i)
                        /\ IF sc_file[i].nodes > 0 \/ sc_file[i].ways > 0
                           THEN /\ sc_pc' = "returned"
                                /\ sc_pos' = 0
                                /\ UNCHANGED sc_ways_ids
                           ELSE /\ sc_ways_ids' = sc_ways_ids \cup FilteredWays(sc_file[i])
                                /\ sc_pos' = total + 4 + sc_file[i].header_len
                                                + sc_file[i].datasize
                                /\ UNCHANGED sc_pc
    /\ UNCHANGED <<sc_file, sc_blocks_sizes, varsButScan>>

NextScan == ScanForward \/ ScanBackward

SpecScan == InitScan /\ [][NextScan /\ UNCHANGED <<varsRoute, varsMerge, varsZoom, varsTW>>]_vars

(***************************************************************************)
(* The ring assembly of PbfProcessor::read_relations                       *)
(* (osm_tool/src/pbf_processor.rs 221-244): the outer ways of a relation,  *)
(* each a list of node ids, are chained in a map keyed by the last node id *)
(* of a chain.  Every chain carries the set of the members it is made of.  *)
(***************************************************************************)
MaxOuter == 3

\* The refs of the outer ways: the sides of the triangle 1-2-3 in both
\* orientations and a way apart from them.
OuterRefs == {<<1, 2>>, <<2, 1>>, <<2, 3>>, <<3, 2>>, <<3, 1>>, <<1, 3>>, <<4, 5>>}

OuterLists == UNION {[1..n -> OuterRefs] : n \in 1..MaxOuter}

\* The while loop of one outer way and the insert after it (223-243).
RECURSIVE Chain(_, _)
Chain(chains, way) ==
    LET key1 == way.refs[1]
        key2 == way.refs[Len(way.refs)]
    IN  IF key1 \in DOMAIN chains
        THEN Chain(MapRemove(chains, key1),
                   [refs |-> chains[key1].refs \o way.refs,
                    members |-> chains[key1].members \cup way.members])
        ELSE IF key2 \in DOMAIN chains
        THEN Chain(MapRemove(chains, key2),
                   [refs |-> chains[key2].refs \o Reverse(way.refs),
                    members |-> chains[key2].members \cup way.members])
        ELSE MapInsert(chains, key2, way)

\* for mut way in all_outer_ways, from the i-th way on
RECURSIVE ChainAll(_, _, _)
ChainAll(outer, i, chains) ==
    IF i > Len(outer) THEN chains
    ELSE ChainAll(outer, i + 1, Chain(chains, [refs |-> outer[i], members |-> {i}]))

\* read_relations has collected the outer ways of a relation.
InitRings ==
    /\ RestButRings
    /\ all_outer_ways \in OuterLists
    /\ outer_index = 1
    /\ hm = <<>>

\* One turn of `for mut way in all_outer_ways`.
ChainWay ==
    /\ outer_index <= Len(all_outer_ways)
    /\ hm' = Chain(hm, [refs |-> all_outer_ways[outer_index], members |-> {outer_index}])
    /\ outer_index' = outer_index + 1
    /\ UNCHANGED <<all_outer_ways, varsButRings>>

NextRings == ChainWay

SpecRings == InitRings /\ [][NextRings /\ UNCHANGED <<varsRoute, varsMerge, varsZoom, varsTW>>]_vars

(***************************************************************************)
(* PolygonStore::merge_polygons (osm_tool/src/polygon_store.rs 183-225):   *)
(* the pairwise reduction of a list of multipolygons by union.  A          *)
(* multipolygon is the set of the inputs it is the union of.               *)
(***************************************************************************)
MaxPolygons == 16

\* An inner loop that goes on while i is inside the list.
InnerBreakAtEnd(i, half, len) == i >= len

\* The break of the inner loop (polygon_store.rs 211-213).
InnerBreak(i, half, len) == i + half >= len

\* merge_polygons is called with a list of polygons.
InitUnion ==
    /\ RestButUnion
    /\ mp_input \in 0..MaxPolygons
    /\ mp_pc = "called"
    /\ mp_polygons = <<>>
    /\ mp_step = 0
    /\ mp_half_step = 0
    /\ mp_i = 0
    /\ mp_rounds = 0

\* merge_polygons up to its loop: every polygon made a multipolygon, the
\* returns on no polygon and on one, step = 1, half_step = 0.
UnionBegin ==
    /\ mp_pc = "called"
    /\ mp_polygons' = [k \in 1..mp_input |-> {k}]
    /\ mp_pc' = IF mp_input <= 1 THEN "returned" ELSE "round"
    /\ mp_step' = IF mp_input <= 1 THEN 0 ELSE 1
    /\ UNCHANGED <<mp_input, mp_half_step, mp_i, mp_rounds, varsButUnion>>

\* The head of a turn of the outer loop: half_step = step, step *= 2, i = 0.
UnionRound ==
    /\ mp_pc = "round"
    /\ mp_half_step' = mp_step
    /\ mp_step' = mp_step * 2
    /\ mp_i' = 0
    /\ mp_rounds' = mp_rounds + 1
    /\ mp_pc' = "pair"
    /\ UNCHANGED <<mp_input, mp_polygons, varsButUnion>>

\* One turn of the inner loop: polygons[i] = p1.union(p2), get(..).unwrap()
\* panicking outside the list, i += step and the break; after the break the
\* outer loop ends when step >= polygons.len().
UnionPair ==
    /\ mp_pc = "pair"
    /\ IF mp_i + mp_half_step >= Len(mp_polygons)
       THEN /\ mp_pc' = "panicked"
            /\ UNCHANGED <<mp_polygons, mp_i>>
       ELSE /\ mp_polygons' = [mp_polygons EXCEPT ![mp_i + 1] =
                                  mp_polygons[mp_i + 1]
                                      \cup mp_polygons[mp_i + mp_half_step + 1]]
            /\ mp_i' = mp_i + mp_step
            /\ mp_pc' = IF ~InnerBreak(mp_i + mp_step, mp_half_step, Len(mp_polygons))
                        THEN "pair"
                        ELSE IF mp_step >= Len(mp_polygons) THEN "returned"
                        ELSE "round"
    /\ UNCHANGED <<mp_input, mp_step, mp_half_step, mp_rounds, varsButUnion>>

NextUnion == UnionBegin \/ UnionRound \/ UnionPair

SpecUnion == InitUnion /\ [][NextUnion /\ UNCHANGED <<varsRoute, varsMerge, varsZoom, varsTW>>]_vars

(***************************************************************************)
(* Claims about OsmRoadGraph, checked under SpecRoute.                     *)
(***************************************************************************)
\* The nodes reachable from a along directed edges (a itself included).
RECURSIVE ReachableSet(_, _)
ReachableSet(g, S) ==
    LET T == S \cup {p[2] : p \in {q \in DOMAIN g : q[1] \in S}}
    IN  IF T = S THEN S ELSE ReachableSet(g, T)

IsEdgePath(g, path, from, to) ==
    /\ Len(path) >= 1
    /\ path[1] = from
    /\ path[Len(path)] = to
    /\ \A i \in 1..(Len(path) - 1) : <<path[i], path[i + 1]>> \in DOMAIN g

RECURSIVE PathCost(_, _)
PathCost(g, path) ==
    IF Len(path) <= 1 THEN 0
    ELSE g[<<path[1], path[2]>>] + PathCost(g, Tail(path))

\* The least total weight of a directed path from a to each node: Bellman-Ford
\* rounds over a distance table (absent = unreachable so far).
RECURSIVE LeastCosts(_, _, _)
LeastCosts(g, d, rounds) ==
    IF rounds = 0 THEN d
    ELSE
      LET cand(t) == {d[p[1]] + g[p] : p \in {q \in DOMAIN g : q[2] = t /\ q[1] \in DOMAIN d}}
                       \cup (IF t \in DOMAIN d THEN {d[t]} ELSE {})
          dom == {t \in RoadNodes : cand(t) # {}}
      IN  LeastCosts(g, [t \in dom |-> SetMin(cand(t))], rounds - 1)

LeastCost(g, a, b) == LeastCosts(g, [k \in {a} |-> 0], Cardinality(RoadNodes))[b]

RouteCalled == route_result.kind # "init"

BothEndpointsKnown ==
    /\ RouteCalled
    /\ route_result.from \in DOMAIN node_map
    /\ route_result.to \in DOMAIN node_map

\* C8: on the nodes of the graph, route(a, b) is None exactly when b is not
\* reachable from a along directed edges; a returned sequence is the
\* coordinates node_map[n_i] of a node path a = n_0, ..., n_k = b whose
\* consecutive nodes are joined by directed edges; and route(a, a) is
\* [coord(a)].
RouteSoundAndComplete ==
    BothEndpointsKnown =>
      /\ route_result.kind \in {"none", "some"}
      /\ (route_result.kind = "none") <=>
            (route_result.to \notin ReachableSet(node_graph, {route_result.from}))
      /\ route_result.kind = "some" =>
            /\ IsEdgePath(node_graph, route_result.path, route_result.from, route_result.to)
            /\ Len(route_result.coords) = Len(route_result.path)
            /\ \A i \in 1..Len(route_result.path) :
                  route_result.coords[i] = node_map[route_result.path[i]]
      /\ route_result.from = route_result.to =>
            /\ route_result.kind = "some"
            /\ route_result.coords = <<node_map[route_result.from]>>

\* A route over two edges was returned, and so was a None between known nodes.
RouteSoundAndCompleteWitness ==
    /\ BothEndpointsKnown
    /\ route_result.kind = "some"
    /\ Len(route_result.path) = 3
    /\ <<route_result.from, route_result.to>> \notin DOMAIN node_graph
    /\ route_result.from \notin ReachableSet(node_graph, {route_result.to})

\* C9: a returned route has the least total edge weight among the directed
\* paths from a to b.
RouteIsCheapest ==
    (BothEndpointsKnown /\ route_result.kind = "some") =>
        PathCost(node_graph, route_result.path)
          = LeastCost(node_graph, route_result.from, route_result.to)

\* C10: route returns None whenever from_id or to_id has no coordinate in the
\* node map.
RouteNoneForUnknownEndpoint ==
    (RouteCalled /\ (route_result.from \notin DOMAIN node_map
                     \/ route_result.to \notin DOMAIN node_map)) =>
        route_result.kind = "none"

(***************************************************************************)
(* Claims about WayStore::merge_ways, checked under SpecMerge.             *)
(***************************************************************************)
MergedNodes == {merged_map[k] : k \in DOMAIN merged_map}

\* C4: every entry of the merge map is stored under the key of its f_id, its
\* line starts at the coordinate of node f_id and ends at the coordinate of
\* node l_id, through every prepend and append splice.
ChainEndsMatchIds ==
    \A k \in DOMAIN merged_map :
        LET node == merged_map[k]
        IN  /\ node.f_id = k[1]
            /\ node.line[1] = NodeCoord(node.f_id)
            /\ node.line[Len(node.line)] = NodeCoord(node.l_id)

\* The last item was spliced at both ends: a chain was prepended at key1 and
\* another appended at key2.
ChainEndsMatchIdsWitness ==
    \E k \in DOMAIN merged_map :
        /\ merged_map[k].prepends >= 1
        /\ merged_map[k].appends >= 1
        /\ merged_map[k].f_id # merged_map[k].l_id

SameClass(i1, i2) ==
    /\ i1.line_kind = i2.line_kind
    /\ i1.layer = i2.layer
    /\ i1.layer_kind = i2.layer_kind

\* C6: the ways of one chain follow each other at a shared endpoint node id
\* and agree on line_kind, layer and layer_kind; and two chains of one class
\* never rest at the same endpoint id unstitched, whatever their names.
StitchedOnlyWithinClass ==
    /\ \A node \in MergedNodes :
          /\ \A i \in 1..Len(node.parts), j \in 1..Len(node.parts) :
                SameClass(node.parts[i].info, node.parts[j].info)
          /\ \A i \in 1..(Len(node.parts) - 1) :
                node.parts[i].to = node.parts[i + 1].from
    /\ \A n1 \in MergedNodes, n2 \in MergedNodes :
          (SameClass(n1.obj.kind, n2.obj.kind) /\ n1.obj.id # n2.obj.id) =>
              {n1.f_id, n1.l_id} \cap {n2.f_id, n2.l_id} = {}

\* Two ways that differ in name alone were stitched, while a way of another
\* class sharing the node stayed a chain of its own.
StitchedOnlyWithinClassWitness ==
    \E n1 \in MergedNodes, n2 \in MergedNodes :
        /\ Len(n1.parts) = 2
        /\ n1.parts[1].info.name_en # n1.parts[2].info.name_en
        /\ ~SameClass(n1.obj.kind, n2.obj.kind)
        /\ n2.f_id \in {n1.parts[1].to}

\* The entries of the map that hold the path of this entry.
EntriesOf(node) == {k \in DOMAIN merged_map : merged_map[k].obj.id = node.obj.id}

\* The entry at the other end of an entry's path: the same path turned round.
IsPartner(node, other) ==
    /\ other.f_id = node.l_id
    /\ other.l_id = node.f_id
    /\ other.obj = node.obj
    /\ other.line = Reverse(node.line)

\* The statement of C20 as written: every path has exactly two entries.
TwoEntriesPerPath ==
    \A k \in DOMAIN merged_map :
        LET node == merged_map[k]
            far == PathNodeKey(node.l_id, node.obj.kind)
        IN  /\ k = PathNodeKey(node.f_id, node.obj.kind)
            /\ far \in DOMAIN merged_map
            /\ IsPartner(node, merged_map[far])
            /\ EntriesOf(node) = {k, far}
            /\ Cardinality(EntriesOf(node)) = 2

\* C20: after each item every merged path with two different endpoint ids is
\* referenced by exactly two entries of the merge map, one keyed by each
\* endpoint id with the WayInfo of the item, holding the same path in
\* opposite orientation, and a path whose endpoint ids are the same by exactly
\* one entry; an entry never stays in the map without the entry at the other
\* end of its path.
TwoEntriesPerOpenPath ==
    \A k \in DOMAIN merged_map :
        LET node == merged_map[k]
            far == PathNodeKey(node.l_id, node.obj.kind)
        IN  /\ k = PathNodeKey(node.f_id, node.obj.kind)
            /\ far \in DOMAIN merged_map
            /\ EntriesOf(node) = {k, far}
            /\ node.f_id # node.l_id =>
                  /\ IsPartner(node, merged_map[far])
                  /\ Cardinality(EntriesOf(node)) = 2
            /\ node.f_id = node.l_id => Cardinality(EntriesOf(node)) = 1

\* A closed path rests in the map beside a path spliced from two ways, whose
\* entries were removed and inserted together.
TwoEntriesPerOpenPathWitness ==
    \E n1 \in MergedNodes, n2 \in MergedNodes :
        /\ n1.f_id = n1.l_id
        /\ n2.f_id # n2.l_id
        /\ n2.prepends + n2.appends >= 1

\* The vertices a way read stands for in a chain, by the ends it has in the
\* chain's direction: its line, or its line reversed (the ways of WayRefs
\* differ in their pair of ends).
RunTable ==
    LET runs == {<<as_line(r).f_node, as_line(r).l_node, as_line(r).line>> : r \in WayRefs}
                \cup {<<as_line(r).l_node, as_line(r).f_node, Reverse(as_line(r).line)>> :
                         r \in WayRefs}
    IN  [e \in {<<x[1], x[2]>> : x \in runs} |->
            (CHOOSE x \in runs : x[1] = e[1] /\ x[2] = e[2])[3]]

PartRun(part) == RunTable[<<part.from, part.to>>]

RECURSIVE PartRuns(_)
PartRuns(parts) ==
    IF parts = <<>> THEN <<>> ELSE PartRun(Head(parts)) \o PartRuns(Tail(parts))

\* The places a way read takes in what is returned: an excluded entry, or a
\* part of a kept chain.
PlacesOf(ret, way_id) ==
    {<<"excluded", i>> : i \in {j \in 1..Len(ret.excluded) : ret.excluded[j].obj.id = way_id}}
    \cup UNION {{<<node.obj.id, i>> : i \in {j \in 1..Len(node.parts) :
                                                node.parts[j].way_id = way_id}} :
                node \in ret.merged}

RECURSIVE VertexCount(_)
VertexCount(lines) ==
    IF lines = {} THEN 0
    ELSE LET l == CHOOSE x \in lines : TRUE
         IN  Len(l.line) + VertexCount(lines \ {l})

\* The lines returned and the lines read, each under the id that tells it
\* from the others.
ReturnedLines(ret) ==
    {[id |-> node.obj.id, line |-> node.line] : node \in ret.merged}
    \cup {[id |-> ret.excluded[i].obj.id, line |-> ret.excluded[i].line] :
             i \in 1..Len(ret.excluded)}

ReadLines(ret) ==
    UNION {{[id |-> node.parts[i].way_id, line |-> PartRun(node.parts[i])] :
               i \in 1..Len(node.parts)} : node \in ret.merged}
    \cup {[id |-> ret.excluded[i].obj.id, line |-> ret.excluded[i].line] :
             i \in 1..Len(ret.excluded)}

\* C21: merge_ways conserves its input: whatever the order of the hash map,
\* each chain is returned once, each excluded way once and unmerged under its
\* own id, every way read is a contiguous run, forward or reversed, of exactly
\* one returned line, and the returned lines have as many vertices as the
\* ways read.
MergeConservesInput ==
    /\ \A k \in DOMAIN merged_map :
          /\ merged_map[k].line = PartRuns(merged_map[k].parts)
          /\ merged_map[k].obj.kind.line_kind \notin ExcludedKinds
    /\ \A i \in 1..Len(excluded_vec) :
          /\ excluded_vec[i].obj.kind.line_kind \in ExcludedKinds
          /\ excluded_vec[i].obj.id \notin MergedIds
          /\ excluded_vec[i].line \in {as_line(r).line : r \in WayRefs}
    /\ \A first \in FirstChoices :
          LET ret == merge_ways_return(first)
          IN  /\ ret.excluded = excluded_vec
              /\ ret.merged \subseteq MergedNodes
              /\ \A id \in MergedIds :
                    Cardinality({n \in ret.merged : n.obj.id = id}) = 1
              /\ \A way_id \in 1..ways_read : Cardinality(PlacesOf(ret, way_id)) = 1
              /\ VertexCount(ReturnedLines(ret)) = VertexCount(ReadLines(ret))

\* A chain of two stitched ways is returned beside an excluded way.
MergeConservesInputWitness ==
    /\ excluded_vec # <<>>
    /\ \E k \in DOMAIN merged_map :
          /\ Len(merged_map[k].parts) = 2
          /\ merged_map[k].f_id # merged_map[k].l_id

(***************************************************************************)
(* Claims about the per-zoom emission.                                     *)
(***************************************************************************)
RECURSIVE IsSubsequence(_, _)
IsSubsequence(s, t) ==
    IF s = <<>> THEN TRUE
    ELSE IF t = <<>> THEN FALSE
    ELSE IF Head(s) = Head(t) THEN IsSubsequence(Tail(s), Tail(t))
    ELSE IsSubsequence(s, Tail(t))

\* C5: with preserve_topology, every sub-line sent for a way at a zoom level
\* is an order-preserving subsequence of the coordinates of that way: no
\* vertex is invented and none is reordered.
SubLinesAreSubsequences ==
    preserve_topology =>
        \A i \in 1..Len(sent) : IsSubsequence(sent[i].line, data[sent[i].id].line)

\* A way was cut or simplified: a sub-line of at least two vertices, shorter
\* than its way, was sent at a level above zero.
SubLinesAreSubsequencesWitness ==
    /\ preserve_topology
    /\ \E i \in 1..Len(sent) :
          /\ sent[i].zoom >= 1
          /\ Len(sent[i].line) >= 2
          /\ Len(sent[i].line) < Len(data[sent[i].id].line)

\* The loops are past way i at zoom z.
Decided(i, z) ==
    IF preserve_topology THEN z < zoom_level
    ELSE i < way_index \/ (i = way_index /\ z < zoom_level)

Zooms == 0..(ZOOM_LEVELS - 1)

DownwardClosed ==
    \A kind \in LineKinds : \A z \in Zooms :
        z + 1 \in Zooms /\ included(z + 1, kind) => included(z, kind)

KeptAt(z) == {i \in 1..Len(data) : included(z, data[i].line_kind)}

EndsAt(c, z) ==
    \E i \in KeptAt(z) : data[i].line[1] = c \/ data[i].line[Len(data[i].line)] = c

RECURSIVE Passes(_, _, _)
Passes(c, z, i) ==
    IF i > Len(data) THEN 0
    ELSE (IF i \in KeptAt(z)
          THEN Cardinality({k \in DOMAIN data[i].line : data[i].line[k] = c})
          ELSE 0) + Passes(c, z, i + 1)

\* The short-leftover rule in the terms of the ways kept at z: the way is no
\* longer than 0.0025, no kept way ends on one of its inner vertices, and
\* nothing else passes through its two ends.
ShortLeftover(i, z) ==
    LET line == data[i].line
    IN  /\ LineLength(line) <= LEFTOVER_LENGTH
        /\ \A k \in 2..(Len(line) - 1) : ~EndsAt(line[k], z)
        /\ Passes(line[1], z, 1) <= 1
        /\ Passes(line[Len(line)], z, 1) <= 1

LevelDone == zoom_level - 1

PassedFilter(i) == data[i].id \notin seen

SubLinesOf(i) == {k \in 1..Len(sent) : sent[k].id = data[i].id}

Isolated(i) ==
    /\ CounterGet(nodes_counter, create_coord_id(data[i].line[1])) <= 1
    /\ CounterGet(nodes_counter, create_coord_id(data[i].line[Len(data[i].line)])) <= 1

CoversWhole(k, i) ==
    /\ sent[k].line[1] = data[i].line[1]
    /\ sent[k].line[Len(sent[k].line)] = data[i].line[Len(data[i].line)]

\* C22 as stated: with preserve_topology at a level above zero, a way that
\* passes the filter and neither of whose ends has a vertex count above one is
\* sent as one line covering the whole way, or not at all; it is never cut
\* into several sub-lines.
IsolatedWayIsOneLine ==
    preserve_topology /\ LevelDone >= 1 =>
        \A i \in 1..Len(data) :
            PassedFilter(i) /\ Isolated(i) =>
                /\ Cardinality(SubLinesOf(i)) <= 1
                /\ \A k \in SubLinesOf(i) : CoversWhole(k, i)

\* The inner vertices of a way on which some way still counted has an end.
InnerCuts(i) ==
    {k \in 2..(Len(data[i].line) - 1) :
        CounterGet(start_end_map, create_coord_id(data[i].line[k])) > 0}

\* C22, amended: such a way is sent as one line covering the whole way, or
\* not at all, when no inner vertex of it carries an end of a way still
\* counted; otherwise it is cut at each such inner vertex, into one sub-line
\* more than there are such vertices.
IsolatedWayIsCutAtInnerEnds ==
    preserve_topology /\ LevelDone >= 1 =>
        \A i \in 1..Len(data) :
            PassedFilter(i) /\ Isolated(i) /\ Len(data[i].line) >= 2 =>
                IF InnerCuts(i) = {}
                THEN /\ Cardinality(SubLinesOf(i)) <= 1
                     /\ \A k \in SubLinesOf(i) : CoversWhole(k, i)
                ELSE Cardinality(SubLinesOf(i)) = Cardinality(InnerCuts(i)) + 1

\* At a level above zero an isolated way with an end of another way on an
\* inner vertex was sent in two sub-lines.
IsolatedWayIsCutAtInnerEndsWitness ==
    /\ preserve_topology /\ LevelDone >= 1
    /\ \E i \in 1..Len(data) :
          /\ PassedFilter(i) /\ Isolated(i)
          /\ InnerCuts(i) # {}
          /\ Cardinality(SubLinesOf(i)) = 2


\* The coordinate keys of the merged ways.
CoordKeys ==
    UNION {{create_coord_id(data[i].line[k]) : k \in DOMAIN data[i].line} :
              i \in 1..Len(data)}

WaysEndingAt(c) ==
    {i \in 1..Len(data) :
        \/ create_coord_id(data[i].line[1]) = c
        \/ create_coord_id(data[i].line[Len(data[i].line)]) = c}

WaysContaining(c) ==
    {i \in 1..Len(data) :
        \E k \in DOMAIN data[i].line : create_coord_id(data[i].line[k]) = c}

\* C23: with preserve_topology, before the first level is processed,
\* start_end_map holds at every coordinate key the number of merged ways
\* with an end there and nodes_counter the number of merged ways that
\* contain it, closed ways and chains with a doubled joint vertex included.
CountersCountWays ==
    preserve_topology /\ zoom_level = 0 =>
        \A c \in CoordKeys :
            /\ CounterGet(start_end_map, c) = Cardinality(WaysEndingAt(c))
            /\ CounterGet(nodes_counter, c) = Cardinality(WaysContaining(c))


\* The listings of the merged ways in every order.
Listings ==
    {[k \in 1..Len(data) |-> data[p[k]]] :
        p \in {q \in [1..Len(data) -> 1..Len(data)] :
                  \A a, b \in 1..Len(data) : q[a] = q[b] => a = b}}

\* One level run on a listing from the counters and the seen set at hand.
LevelOf(ways) ==
    LET f == FilterLevel(ways, zoom_level, 1,
                         [seen |-> seen, se |-> start_end_map,
                          nc |-> nodes_counter, filtered |-> <<>>])
    IN  [seen |-> f.seen, se |-> f.se, nc |-> f.nc,
         out |-> EmitLevel(f.filtered, zoom_level, f.se, f.nc, 1)]

BagOfLines(seq) ==
    [x \in Range(seq) |-> Cardinality({k \in 1..Len(seq) : seq[k] = x})]

\* What the ways included at z put into the two counters.
RECURSIVE IncludedOnly(_, _, _)
IncludedOnly(ways, z, i) ==
    IF i > Len(ways) THEN <<>>
    ELSE (IF included(z, ways[i].line_kind) THEN <<ways[i]>> ELSE <<>>)
         \o IncludedOnly(ways, z, i + 1)

ContributionsAt(z) == CountAll(IncludedOnly(data, z, 1), 1, [se |-> <<>>, nc |-> <<>>])

FirstExcludedBy(z) ==
    {data[i].id : i \in {k \in 1..Len(data) :
                           \E y \in 1..z : ~included(y, data[k].line_kind)}}

\* C24: with preserve_topology a level z >= 1 subtracts from both counters
\* the ways excluded for the first time at z and no other way; after its
\* filter both counters hold what the ways included at z put into them, no
\* counter is below zero, and the sub-lines sent at z are the same for
\* every order in which the ways are listed.
CountersFollowIncludedWays ==
    [][preserve_topology /\ zoom_level >= 1 =>
          /\ seen' \ seen = FirstExcludedBy(zoom_level) \ seen
          /\ seen' = FirstExcludedBy(zoom_level)
          /\ \A c \in CoordKeys :
                /\ CounterGet(start_end_map', c) = CounterGet(ContributionsAt(zoom_level).se, c)
                /\ CounterGet(nodes_counter', c) = CounterGet(ContributionsAt(zoom_level).nc, c)
          /\ \A c \in DOMAIN start_end_map' : start_end_map'[c] >= 0
          /\ \A c \in DOMAIN nodes_counter' : nodes_counter'[c] >= 0
          /\ \A ways \in Listings :
                /\ LevelOf(ways).seen = seen'
                /\ LevelOf(ways).se = start_end_map'
                /\ LevelOf(ways).nc = nodes_counter'
                /\ BagOfLines(LevelOf(ways).out) = BagOfLines(sent')]_vars

\* A level above the first has left one way excluded and has sent sub-lines
\* of a way that shares a vertex with the excluded one.
CountersFollowIncludedWaysWitness ==
    /\ preserve_topology /\ LevelDone >= 2
    /\ Cardinality(seen) = 1
    /\ sent # <<>>
    /\ \E i, j \in 1..Len(data) :
          /\ data[i].id \in seen /\ data[j].id \notin seen
          /\ {create_coord_id(data[i].line[k]) : k \in DOMAIN data[i].line}
                \cap {create_coord_id(data[j].line[k]) : k \in DOMAIN data[j].line} # {}


\* The sub-lines sent for way i at the level done, in the order sent.
RECURSIVE SubLineSeq(_, _)
SubLineSeq(i, k) ==
    IF k > Len(sent) THEN <<>>
    ELSE (IF sent[k].id = data[i].id THEN <<sent[k].line>> ELSE <<>>)
         \o SubLineSeq(i, k + 1)

\* The short-leftover rule as the scan applies it (way_store.rs 262-266).
DroppedAsLeftover(i) ==
    /\ Isolated(i)
    /\ InnerCuts(i) = {}
    /\ LineLength(data[i].line) <= LEFTOVER_LENGTH

\* C25: with preserve_topology at a level above zero, a way included at the
\* level and not dropped as a short leftover is sent in sub-lines of which
\* the first starts at the first vertex of the way, the last ends at its
\* last vertex and each one starts at the vertex the one before ends at: no
\* segment after the last cut stays unsent.
CuttingLosesNothing ==
    preserve_topology /\ LevelDone >= 1 =>
        \A i \in 1..Len(data) :
            PassedFilter(i) =>
                LET subs == SubLineSeq(i, 1)
                    line == data[i].line
                IN  /\ Len(line) >= 2 /\ ~DroppedAsLeftover(i) => subs # <<>>
                    /\ DroppedAsLeftover(i) => subs = <<>>
                    /\ subs # <<>> =>
                          /\ subs[1][1] = line[1]
                          /\ subs[Len(subs)][Len(subs[Len(subs)])] = line[Len(line)]
                          /\ \A k \in 1..(Len(subs) - 1) :
                                subs[k][Len(subs[k])] = subs[k + 1][1]

\* At a level above zero a way of three vertices or more was cut at an inner
\* vertex and its last sub-line ends at its last vertex.
CuttingLosesNothingWitness ==
    /\ preserve_topology /\ LevelDone >= 1
    /\ \E i \in 1..Len(data) :
          /\ PassedFilter(i)
          /\ Len(SubLineSeq(i, 1)) >= 2
          /\ SubLineSeq(i, 1)[1][1] = data[i].line[1]
          /\ LET last == SubLineSeq(i, 1)[Len(SubLineSeq(i, 1))]
             IN  last[Len(last)] = data[i].line[Len(data[i].line)]


(***************************************************************************)
(* Claims about the TileWriter, checked under SpecTW.                      *)
(***************************************************************************)
Occurrences(seq, x) == Cardinality({i \in 1..Len(seq) : seq[i] = x})

RECURSIVE TimesSent(_, _)
TimesSent(rec, n) ==
    IF n = 0 THEN 0
    ELSE Occurrences(JobRecords(submitted[n]), rec) + TimesSent(rec, n - 1)

TimesStored(rec) ==
    IF rec[1] \in DOMAIN tile_db_map
    THEN Occurrences(tile_db_map[rec[1]], <<rec[2], rec[3]>>) ELSE 0

RecordsOfJobs == UNION {Range(JobRecords(submitted[n])) : n \in 1..Len(submitted)}

RecordsStored ==
    UNION {{<<key, tile_db_map[key][i][1], tile_db_map[key][i][2]>> :
              i \in 1..Len(tile_db_map[key])} : key \in DOMAIN tile_db_map}

\* C1: when flush_to_collections returns, every record sent by every job
\* submitted before it is in tile_db_map under its key exactly as often as it
\* was sent, nothing else is there, and no job is queued or running.
FlushLosesNothing ==
    tw_pc = "flushed" =>
        /\ job_queue = <<>>
        /\ running = {}
        /\ \A rec \in RecordsOfJobs \cup RecordsStored :
              TimesStored(rec) = TimesSent(rec, Len(submitted))

\* A flush has returned after two jobs that sent five records or more
\* between them.
FlushLosesNothingWitness ==
    /\ tw_pc = "flushed"
    /\ Len(submitted) >= 2
    /\ Cardinality(RecordsStored) >= 5

JobOf(entry) == submitted[entry[1].id]

\* C2: a record of a job submitted with can_create_new_tiles = false at a
\* zoom below 10 is stored only under a key that was in the key cache the job
\* saw, which was taken from the keys of tile_db_map; and every stored key of
\* a zoom below 10 holds a record of a job submitted with
\* can_create_new_tiles = true.
PlanetDataOnlyEnriches ==
    \A key \in DOMAIN tile_db_map :
        /\ \A i \in 1..Len(tile_db_map[key]) :
              LET job == JobOf(tile_db_map[key][i])
              IN  ~job.can_create_new_tiles /\ job.zoom_level < MIN_ZOOM_FOR_PLANET_TILES
                      => key \in job.tile_keys_cache /\ job.tile_keys_cache \in captured
        /\ key.zoom_level < MIN_ZOOM_FOR_PLANET_TILES =>
              \E i \in 1..Len(tile_db_map[key]) :
                  JobOf(tile_db_map[key][i]).can_create_new_tiles

\* A planet-data job at zoom 9 whose geometry reaches two tiles has its
\* record stored under the one that existed and under no other.
PlanetDataOnlyEnrichesWitness ==
    /\ tw_pc = "flushed"
    /\ \E n \in 1..Len(submitted) :
          /\ ~submitted[n].can_create_new_tiles
          /\ submitted[n].zoom_level < MIN_ZOOM_FOR_PLANET_TILES
          /\ \E key \in DOMAIN tile_db_map :
                \E i \in 1..Len(tile_db_map[key]) : tile_db_map[key][i][1].id = n
          /\ TileKey(0, 1, 9) \notin DOMAIN tile_db_map

\* The entry of tile_db_map a persisted record was made from.
Accumulated(row) ==
    <<row[1], [type |-> row[2].type,
               coords |-> [i \in DOMAIN row[2].coords |-> row[2].coords[i].f32.world]]>>

PlaceIn(seq, x) == CHOOSE i \in 1..Len(seq) : seq[i] = x

\* C3: every collection save_to_file persists holds the records accumulated
\* under its key, ascending in the order of MapGeomObject, which looks at the
\* kind only; records that compare equal stay in the order they were
\* accumulated in.
PersistedSortedStable ==
    tw_pc = "saved" =>
        /\ DOMAIN persisted = DOMAIN accumulated
        /\ \A key \in DOMAIN persisted :
              LET rows == persisted[key]
                  was == accumulated[key]
              IN  /\ Len(rows) = Len(was)
                  /\ \A i \in 1..Len(rows) : Accumulated(rows[i]) \in Range(was)
                  /\ \A i, j \in 1..Len(rows) :
                        i < j =>
                          /\ ~ObjLess(rows[j][1], rows[i][1])
                          /\ ~ObjLess(rows[i][1], rows[j][1]) =>
                                PlaceIn(was, Accumulated(rows[i]))
                                    < PlaceIn(was, Accumulated(rows[j]))

\* A collection was persisted that had accumulated a record of a greater
\* kind before two records of one lesser kind.
PersistedSortedStableWitness ==
    /\ tw_pc = "saved"
    /\ \E key \in DOMAIN accumulated :
          LET was == accumulated[key]
          IN  /\ Len(was) >= 3
              /\ ObjLess(was[2][1], was[1][1])
              /\ ~ObjLess(was[2][1], was[3][1])
              /\ ~ObjLess(was[3][1], was[2][1])


\* The jobs submitted from the first one with can_create_new_tiles = false
\* on.
FirstCapture ==
    CHOOSE n \in 1..Len(submitted) :
        /\ ~submitted[n].can_create_new_tiles
        /\ \A m \in 1..(n - 1) : submitted[m].can_create_new_tiles

MatchingEntries(tags) ==
    {k \in DOMAIN tags :
        \E n \in 1..Len(filter_tags) :
            /\ string_table[k] = filter_tags[n].k
            /\ (filter_tags[n].v = None \/ Some(string_table[tags[k]]) = filter_tags[n].v)}

\* C11: filter returns Some((k, v)) if and only if some entry key -> val of
\* tags is matched by a pair (fk, fv) of the filter list, string_table[key]
\* = fk and fv None or string_table[val] = fv; the pair returned is that of
\* a matching entry, and None is returned when no entry matches.
FilterMatchesByString ==
    filter_result[1] = "returned" =>
        LET tags == filter_result[2]
        IN  IF MatchingEntries(tags) = {} THEN filter_result[3] = None
            ELSE filter_result[3] \in
                    {Some(<<string_table[k], string_table[tags[k]]>>) :
                        k \in MatchingEntries(tags)}


(***************************************************************************)
(* Claims about TagIterator, checked under SpecTags.                       *)
(***************************************************************************)
\* Position p of the stream holds a key or a terminator (not a value).
RECURSIVE IsKeyPos(_, _)
IsKeyPos(s, p) ==
    \/ p = 1
    \/ p >= 2 /\ s[p - 1] = 0 /\ IsKeyPos(s, p - 1)
    \/ p >= 3 /\ s[p - 2] # 0 /\ IsKeyPos(s, p - 2)

Terminators(s) == {p \in 1..Len(s) : s[p] = 0 /\ IsKeyPos(s, p)}

\* Every key of the stream is followed by its value.
Alternating(s) == s = <<>> \/ ~(s[Len(s)] # 0 /\ IsKeyPos(s, Len(s)))

\* The g-th group runs from after the (g-1)-th terminator to before the g-th
\* one, or to the end of the stream.
GroupStart(s, g) ==
    IF g = 1 THEN 1
    ELSE 1 + CHOOSE p \in Terminators(s) :
                 Cardinality({q \in Terminators(s) : q <= p}) = g - 1

GroupEnd(s, g) ==
    IF g <= Cardinality(Terminators(s))
    THEN (CHOOSE p \in Terminators(s) : Cardinality({q \in Terminators(s) : q <= p}) = g) - 1
    ELSE Len(s)

GroupCount(s) ==
    Cardinality(Terminators(s))
        + (IF GroupStart(s, Cardinality(Terminators(s)) + 1) <= Len(s) THEN 1 ELSE 0)

GroupMap(s, g) ==
    LET keyAt == {p \in GroupStart(s, g)..GroupEnd(s, g) : IsKeyPos(s, p)}
    IN  [k \in {s[p] : p \in keyAt} |->
            s[1 + CHOOSE p \in keyAt : s[p] = k /\ \A q \in keyAt : s[q] = k => q <= p]]

GroupMaps(s) == [g \in 1..GroupCount(s) |-> GroupMap(s, g)]

\* C12: over a stream of alternating (key, value) indices the iterator
\* yields one key -> value map per 0-terminated group, in stream order, an
\* empty map for a terminator alone, and the final unterminated group when
\* it is not empty; [1,2,3,4,0,2,1] yields [{1:2, 3:4}, {2:1}].
YieldsOneMapPerGroup ==
    Alternating(packed_tags) =>
        /\ Len(yielded) <= GroupCount(packed_tags)
        /\ \A g \in 1..Len(yielded) : yielded[g] = GroupMap(packed_tags, g)
        /\ iter_done => yielded = GroupMaps(packed_tags)
        /\ iter_done /\ packed_tags = <<1, 2, 3, 4, 0, 2, 1>>
              => yielded = <<(1 :> 2 @@ 3 :> 4), (2 :> 1)>>

\* The iterator is exhausted over a stream that starts with a terminator
\* alone and ends in an unterminated group.
YieldsOneMapPerGroupWitness ==
    /\ iter_done
    /\ Alternating(packed_tags)
    /\ Len(yielded) >= 2
    /\ yielded[1] = <<>>
    /\ yielded[Len(yielded)] # <<>>
    /\ packed_tags[Len(packed_tags)] # 0


(***************************************************************************)
(* Claims about sutherland_hodgman_clip, checked under SpecClip.           *)
(***************************************************************************)
InsideOrOn(coord, rect) ==
    /\ rect.min[1] <= coord[1] /\ coord[1] <= rect.max[1]
    /\ rect.min[2] <= coord[2] /\ coord[2] <= rect.max[2]

\* C13: the clip of a ring (two vertices or more) whose vertices all lie
\* inside the rectangle or on its boundary is Some(ring): the same vertices,
\* in the same order, as many.
ClipIsStable ==
    /\ clip_result[1] = "returned"
    /\ Len(subject_polygon) >= 2
    /\ \A i \in 1..Len(subject_polygon) : InsideOrOn(subject_polygon[i], clip_rect)
    => clip_result[2] = Some(subject_polygon)

\* A ring of three different vertices, one on the boundary of the rectangle
\* and one strictly inside it, has been clipped.
ClipIsStableWitness ==
    /\ clip_result[1] = "returned"
    /\ Len(subject_polygon) >= 3
    /\ \A i \in 1..Len(subject_polygon) : InsideOrOn(subject_polygon[i], clip_rect)
    /\ Cardinality(Range(subject_polygon)) = 3
    /\ \E i \in 1..Len(subject_polygon) : subject_polygon[i][1] = clip_rect.max[1]
    /\ \E i \in 1..Len(subject_polygon) : subject_polygon[i] = <<2, 2>>


(***************************************************************************)
(* Claims about one clip job, checked under SpecFill.                      *)
(***************************************************************************)
\* The record is under a tile of the job's zoom within the tile range of the
\* geometry's bounding rectangle.
InTileRange(rec) ==
    LET ranges == calc_tile_ranges(fill_job.zoom_level, bounding_rect(fill_job.map_geometry))
    IN  /\ rec[1].zoom_level = fill_job.zoom_level
        /\ ranges.min_x <= rec[1].tile_x /\ rec[1].tile_x <= ranges.max_x
        /\ ranges.min_y <= rec[1].tile_y /\ rec[1].tile_y <= ranges.max_y

\* C14: for a geometry submitted with can_create_new_tiles = true the pieces
\* sent for the tiles of its range cover it: a point geometry is sent, and
\* every vertex and every segment of a line is in the piece of at least one
\* tile.
ClipsCoverGeometry ==
    fill_records[1] = "sent" /\ fill_job.can_create_new_tiles =>
        LET g == fill_job.map_geometry
            recs == fill_records[2]
        IN  /\ \A n \in 1..Len(recs) : InTileRange(recs[n])
            /\ g.type = "Coord" => \E n \in 1..Len(recs) : recs[n][3] = g
            /\ g.type = "Line" =>
                  /\ \A i \in 1..Len(g.coords) :
                        \E n \in 1..Len(recs) :
                            \E j \in 1..Len(recs[n][3].coords) :
                                recs[n][3].coords[j] = g.coords[i]
                  /\ \A i \in 1..(Len(g.coords) - 1) :
                        \E n \in 1..Len(recs) :
                            \E j \in 1..(Len(recs[n][3].coords) - 1) :
                                /\ recs[n][3].coords[j] = g.coords[i]
                                /\ recs[n][3].coords[j + 1] = g.coords[i + 1]

\* A line of three vertices was cut: some tile of its range got a piece
\* shorter than the line, and another tile another piece.
ClipsCoverGeometryWitness ==
    /\ fill_records[1] = "sent"
    /\ fill_job.can_create_new_tiles
    /\ fill_job.map_geometry.type = "Line"
    /\ Len(fill_job.map_geometry.coords) = 3
    /\ \E n, k \in 1..Len(fill_records[2]) :
          /\ Len(fill_records[2][n][3].coords) = 2
          /\ fill_records[2][k][1] # fill_records[2][n][1]
          /\ fill_records[2][k][3] # fill_records[2][n][3]


(***************************************************************************)
(* Claims about the orders of WayInfo, checked under SpecOrder.            *)
(***************************************************************************)
\* The lexicographic order on (layer_kind, layer, render rank).
LexOrder(a, b) ==
    LET x == <<LayerKindRank(a.layer_kind), a.layer, get_layer(a.line_kind)>>
        y == <<LayerKindRank(b.layer_kind), b.layer, get_layer(b.line_kind)>>
    IN  IF \E i \in 1..3 : x[i] < y[i] /\ \A h \in 1..(i - 1) : x[h] = y[h] THEN "Less"
        ELSE IF x = y THEN "Equal"
        ELSE "Greater"

BlobFailureIsNeverFatal ==
    /\ reader_pc # "panicked"
    /\ reader_pc = "done" =>
          \A i \in 1..Len(blob_file) :
              blob_file[i].fault = "ok" =>
                  i \in Range(blob_buckets[blob_file[i].content])

(***************************************************************************)
(* Claims about the batch pipeline, checked under SpecPipe and             *)
(* SpecPipeLive.                                                           *)
(***************************************************************************)
\* What a worker's output becomes in the saved tiles.
OutputOf(worker) ==
    IF worker[1] = "clip" THEN worker[2]
    ELSE IF worker[1] = "store" THEN <<"store", worker[2]>>
    ELSE <<"blob", worker[2]>>

\* C17: a panic in a worker ends the run: save_to_file is never passed with
\* the output of a panicked worker missing from the tiles.
PanicTerminatesPipeline ==
    pipe_pc = "saved" => \A worker \in panicked : OutputOf(worker) \in stored

\* C18: the pipeline runs to completion: every receiver loop ends and the
\* main thread gets to the end of save_to_file.
PipelineCompletes == <>(pipe_pc = "saved")

\* Records of the ways, of the relations and of both producer threads lay
\* undrained in the TileWriter's channel until the flush, and the run ended
\* with all of them saved.
PipelineCompletesWitness ==
    /\ pipe_pc = "saved"
    /\ Len(pipe_file) >= 2
    /\ stored = ({"blob"} \X (1..Len(pipe_file))) \cup ({"store"} \X StoreThreads)

(***************************************************************************)
(* Claims about the dense nodes, checked under SpecDense.                  *)
(***************************************************************************)
\* The k-th dense node of the block.
DenseId(k) == delta(dense.id)[k]

DenseCoord(k) == <<delta(dense.lon)[k] * granularity, delta(dense.lat)[k] * granularity>>

\* The dense nodes of the block inside the boundary.
DenseInside == {k \in 1..Len(dense.id) : Intersects(DenseBoundary, DenseCoord(k))}

\* C19: the only dense nodes dropped are those outside the boundary: the
\* k-th dense node inside the boundary is in the decoded output, with the
\* k-th mapping of the packed tag stream, whatever the stream, an empty one
\* included.
DenseNodesInsideAreKept ==
    dense_nodes[1] = "decoded" =>
        \A k \in DenseInside :
            \E j \in 1..Len(dense_nodes[2]) :
                /\ dense_nodes[2][j].id = DenseId(k)
                /\ dense_nodes[2][j].coord = DenseCoord(k)
                /\ Alternating(dense.keys_vals) /\ k <= GroupCount(dense.keys_vals) =>
                      dense_nodes[2][j].tags = GroupMap(dense.keys_vals, k)

(***************************************************************************)
(* Claims about the phases of process_pbf, checked under SpecPhases.       *)
(***************************************************************************)
AllNodes == UNION {ph_input.node_blobs[i].nodes : i \in DOMAIN ph_input.node_blobs}

AllUsedWays ==
    UNION {{w \in ph_input.way_blobs[i].ways : w.id \in ph_input.used_ways_ids} :
              i \in DOMAIN ph_input.way_blobs}

Dispatched(kind) ==
    \E job \in ph_jobs \cup ph_running \cup {s.job : s \in ph_started} : job.kind = kind

\* C27: a read_ways job starts only when the node table holds every node of
\* every blob of node_blobs; a read_relations job starts only when the
\* way-ref table holds the refs of every used way of every blob of way_blobs
\* and no way job has output outstanding; the node table does not change
\* once a read_ways job is dispatched, nor the way-ref table once a
\* read_relations job is.
PhasesAreOrdered ==
    [][/\ \A s \in ph_started' :
             /\ s.job.kind = "read_ways" => s.nodes = AllNodes
             /\ s.job.kind = "read_relations" =>
                   /\ \A w \in AllUsedWays :
                         w.id \in DOMAIN s.ways /\ s.ways[w.id] = w.refs
                   /\ s.outstanding = {}
                   /\ \A i \in DOMAIN ph_input.way_blobs :
                         [kind |-> "read_ways", blob |-> i] \in
                             {t.job : t \in ph_started}
       /\ Dispatched("read_ways") => nodes_table' = nodes_table
       /\ Dispatched("read_relations") => ways_table' = ways_table]_vars

\* A read_relations job has started after two way blobs, one of them with a
\* used way, went through the pool, and all is done.
PhasesAreOrderedWitness ==
    /\ ph_pc = "done"
    /\ Len(ph_input.node_blobs) = MaxPhaseBlobs
    /\ Len(ph_input.way_blobs) = MaxPhaseBlobs
    /\ DOMAIN ways_table # {}
    /\ \E s \in ph_started : s.job.kind = "read_relations"
    /\ \E s \in ph_started : s.job.kind = "read_ways"

(***************************************************************************)
(* Claims about the pre-scan of the relations, checked under SpecScan.     *)
(***************************************************************************)
\* A relation matches relation_tags when one of its tags has the string of
\* a listed key and, where the list names a value, the string of that value.
MatchesRelationTags(table, rel_tags) ==
    \E key \in DOMAIN rel_tags : \E n \in 1..Len(relation_tags) :
        /\ relation_tags[n].k = table[key]
        /\ relation_tags[n].v = None \/ relation_tags[n].v = Some(table[rel_tags[key]])

WaysOfMatching(blob) ==
    UNION {LET rel == OsmRelationNew(blob.relations[i])
           IN  IF MatchesRelationTags(blob.string_table, rel.tags)
               THEN rel.ways ELSE {} : i \in DOMAIN blob.relations}

\* The blobs from the last one back to the first one with nodes or ways.
RECURSIVE BackTo(_, _)
BackTo(file, i) ==
    IF i = 0 THEN <<>>
    ELSE IF file[i].nodes > 0 \/ file[i].ways > 0 THEN <<i>>
    ELSE <<i>> \o BackTo(file, i - 1)

ScanWalk ==
    /\ sc_parsed = BackTo(sc_file, Len(sc_file))
    /\ Len(sc_seeks) = Len(sc_parsed)
    /\ \A n \in 1..Len(sc_seeks) : sc_seeks[n] = BlobStart(sc_file, sc_parsed[n])
    /\ sc_pos = 0

\* C28: when the pre-scan returns it has parsed the blobs from the last one
\* backwards up to the first one with nodes or ways, every seek went to the
\* start of the blob parsed next, the ids returned are the way members of
\* the relations matching relation_tags in the blobs parsed without nodes
\* and ways, and the input is at offset 0.
PreScanReturnsWaysOfMatching ==
    sc_pc = "returned" =>
        /\ ScanWalk
        /\ sc_ways_ids =
              UNION {WaysOfMatching(sc_file[sc_parsed[n]]) :
                        n \in {m \in 1..Len(sc_parsed) :
                                  sc_file[sc_parsed[m]].nodes = 0
                                  /\ sc_file[sc_parsed[m]].ways = 0}}

(***************************************************************************)
(* Claims about the ring assembly, checked under SpecRings.                *)
(***************************************************************************)
Ends(refs) == {refs[1], refs[Len(refs)]}

\* The rings of a map of chains as sets of refs of their members.
RingsOf(chains, outer) ==
    {{Ends(outer[i]) : i \in chains[key].members} : key \in DOMAIN chains}

\* The same ways listed in another order, each in either orientation.
Relistings(outer) ==
    {[i \in 1..Len(outer) |-> IF flip[i] THEN Reverse(outer[o[i]]) ELSE outer[o[i]]] :
        o \in Orders(1..Len(outer)), flip \in [1..Len(outer) -> BOOLEAN]}

\* C29: when the outer ways of a relation are chained, two of them that
\* share an end node are in the same ring, and the rings are the same for
\* every order and every orientation in which the ways are listed.
RingsMergeAtSharedEnds ==
    outer_index > Len(all_outer_ways) =>
        /\ \A i, j \in 1..Len(all_outer_ways) :
              Ends(all_outer_ways[i]) \cap Ends(all_outer_ways[j]) # {} =>
                  \E key \in DOMAIN hm : {i, j} \subseteq hm[key].members
        /\ \A other \in Relistings(all_outer_ways) :
              RingsOf(ChainAll(other, 1, <<>>), other) = RingsOf(hm, all_outer_ways)

(***************************************************************************)
(* Claims about merge_polygons, checked under SpecUnion.                   *)
(***************************************************************************)
\* The least r with 2^r >= n.
RECURSIVE CeilLog2From(_, _)
CeilLog2From(n, r) == IF Pow2(r) >= n THEN r ELSE CeilLog2From(n, r + 1)

\* C30: for a list of N >= 1 polygons merge_polygons never reads outside
\* the list, it returns after the least number of rounds r with 2^r >= N,
\* and polygons[0] is then the union of all N inputs.
UnionOfAllInLogRounds ==
    mp_input >= 1 =>
        /\ mp_pc # "panicked"
        /\ mp_pc = "returned" =>
              /\ mp_polygons[1] = 1..mp_input
              /\ mp_rounds = CeilLog2From(mp_input, 0)

\* A list whose length is no power of two was reduced in three rounds or
\* more.
UnionOfAllInLogRoundsWitness ==
    /\ mp_pc = "returned"
    /\ mp_rounds >= 3
    /\ \A r \in 0..mp_input : Pow2(r) # mp_input
    /\ mp_polygons[1] = 1..mp_input

====
